---------------------------- MODULE Spec2Model ----------------------------
(***************************************************************************)
(* Response interpretation of the Yama V2 orchestrator                     *)
(* (YamaV2Orchestrator.parseReviewResult, extractDecision,                 *)
(* calculateStatistics, extractStatisticsFromResponse,                     *)
(* extractEnhancedDescription).                                            *)
(*                                                                         *)
(* A response text is a sequence of lexical units.  A unit is one          *)
(* character of punctuation or white space, one decimal digit, one marker  *)
(* symbol, a fence marker, or a run of word characters.  The text a        *)
(* sequence denotes is the concatenation of its units.  No unit of the     *)
(* alphabet contains a literal of one of the program's patterns as a       *)
(* proper part and no word unit is a proper prefix of another, so matching *)
(* unit by unit finds exactly the matches the program's regular            *)
(* expressions find character by character.                                *)
(***************************************************************************)
EXTENDS Integers, Sequences, FiniteSets, TLC

VARIABLES
    reportMode,           \* session.request.reportMode
    toolCalls,            \* session.toolCalls: the recorded tool names, in order
    responseText,         \* aiResponse.content of the generation call
    reviewResult,         \* the ReviewResult of parseReviewResult, or NoResult
    enhancedDescription,  \* the text extractEnhancedDescription returned, or NoText
    pc,                   \* where the run stands: "running", "parsed", "enhanced", ...
    report,               \* what the report generator did: see NoReport
    backup,               \* what saveOriginalDescriptionFallback did: see NoBackup
    appendix,             \* appendEnhancedDescriptionToReport: "none" | "appended" | "failed"
    server,               \* what the tool server holds and how it answers: see NoServer
    request,              \* the ReviewRequest: pullRequestId ("" if unset), branch (<<>> if unset)
    prInfo,               \* what fetchPRInfo returned: a PRDisplayInfo, or NoPRInfo for null
    workflow,             \* config.review.workflowInstructions, character by character
    instruction,          \* the review instruction the prompt builder composed, <<>> before
    initialized,          \* the orchestrator's initialized flag
    blockedTools,         \* the tools the tool servers were registered with as blocked
    setup,                \* what the last initialization that ran did: see NoSetup
    sessions,             \* the session tracker's records, by session identifier
    called,               \* the last call of the session tracker and whether it signalled an error
    runs,                 \* the entry point that created each session and where it stands
    toolContext,          \* the tool context set in the engine: see NoContext
    executed              \* the tools the current call executed itself, in order: see Execution

\* the state of one session's interpretation
sessionVars == <<reportMode, toolCalls, responseText, reviewResult, enhancedDescription, pc>>

\* the state around it
runVars == <<report, backup, appendix, server, request, prInfo, workflow, instruction>>

engineVars == <<initialized, blockedTools, setup>>

trackerVars == <<sessions, called, runs, toolContext>>

toolVars == <<executed>>

vars == <<sessionVars, runVars, engineVars, trackerVars, toolVars>>

(***************************************************************************)
(* Bounds of the model.                                                    *)
(***************************************************************************)
MaxCalls == 2      \* tool calls recorded in one session
MaxSegs == 2       \* phrases in one review response
MaxParts == 4      \* phrases in one enhancement response

(***************************************************************************)
(* Character classes of the regular expressions, on units.                 *)
(***************************************************************************)
NL == "\n"
QUOTE == "\""
\* the fence marker, three backquotes
FENCE == "<fence>"

\* \s
SpaceUnits == {" ", NL}

\* \d, one digit per unit
DigitUnits == {"0", "1", "2", "3"}

\* runs of letters and "_" (with the digits: \w)
LetterUnits ==
    {"Decision", "decision", "APPROVED", "approve", "BLOCKED", "block",
     "CHANGES", "_REQUESTED", "pending", "tbd", "Files", "Reviewed",
     "Issues", "Found", "markdown", "md", "bash", "Summary", "Did", "Here",
     "json", "c"}

WordUnits == LetterUnits \cup DigitUnits

\* the four severity markers of the Issues Found line
LOCK == "<lock>"
WARN == "<warning+vs16>"
BULB == "<bulb>"
SPEECH == "<speech>"
\* the warning sign without its variation selector: another string
BAREWARN == "<warning>"

OtherUnits ==
    {"*", ":", QUOTE, "|", "#", FENCE, "-", LOCK, WARN, BULB, SPEECH, BAREWARN,
     "{", "}"}

Units == SpaceUnits \cup WordUnits \cup OtherUnits

\* [\s\S]
AnyUnit == Units

\* . (everything but a line terminator)
DotUnits == Units \ {NL}

\* String.prototype.toUpperCase on one unit
ToUpperCase(u) ==
    CASE u = "Decision" -> "DECISION"
      [] u = "decision" -> "DECISION"
      [] u = "approve" -> "APPROVE"
      [] u = "block" -> "BLOCK"
      [] u = "pending" -> "PENDING"
      [] u = "tbd" -> "TBD"
      [] u = "Files" -> "FILES"
      [] u = "Reviewed" -> "REVIEWED"
      [] u = "Issues" -> "ISSUES"
      [] u = "Found" -> "FOUND"
      [] u = "markdown" -> "MARKDOWN"
      [] u = "md" -> "MD"
      [] u = "bash" -> "BASH"
      [] u = "Summary" -> "SUMMARY"
      [] u = "Did" -> "DID"
      [] u = "Here" -> "HERE"
      [] u = "json" -> "JSON"
      [] u = "c" -> "C"
      [] OTHER -> u

\* the units a case-insensitive literal matches
IgnoreCase(lit) == {u \in Units : ToUpperCase(u) = ToUpperCase(lit)}

RECURSIVE Join(_)
\* the string a sequence of units denotes, in upper case
Join(s) == IF s = <<>> THEN "" ELSE ToUpperCase(Head(s)) \o Join(Tail(s))

(***************************************************************************)
(* The regular expression engine: a pattern is a sequence of atoms, an     *)
(* atom a class of units with a repetition range, greedy or lazy, and      *)
(* possibly the number of the capture group it fills.  Matching is by      *)
(* backtracking in the engine's order: a greedy atom tries its longest     *)
(* run first, a lazy one its shortest.                                     *)
(***************************************************************************)
Inf == 99

Atom(set, min, max, greedy, cap) ==
    [set |-> set, min |-> min, max |-> max, greedy |-> greedy, cap |-> cap]

Lit(u) == Atom({u}, 1, 1, TRUE, 0)
LitI(u) == Atom(IgnoreCase(u), 1, 1, TRUE, 0)
Opt(set) == Atom(set, 0, 1, TRUE, 0)
Star(set) == Atom(set, 0, Inf, TRUE, 0)
Plus(set) == Atom(set, 1, Inf, TRUE, 0)
Group(a, n) == [a EXCEPT !.cap = n]

NoMatch == [ok |-> FALSE, from |-> 0, to |-> 0, caps |-> <<>>]
NoCaps == [n \in 1..4 |-> <<0, 0>>]

RECURSIVE RunLen(_, _, _, _)
\* how many units from position i on are in set, at most max
RunLen(set, text, i, max) ==
    IF max = 0 \/ i > Len(text) \/ text[i] \notin set THEN 0
    ELSE 1 + RunLen(set, text, i + 1, max - 1)

RECURSIVE MatchFrom(_, _, _, _, _)
RECURSIVE TryCount(_, _, _, _, _, _, _)

\* atoms k.. of pat against text from position i on
MatchFrom(pat, k, text, i, caps) ==
    IF k > Len(pat) THEN [ok |-> TRUE, from |-> 0, to |-> i, caps |-> caps]
    ELSE LET n == RunLen(pat[k].set, text, i, pat[k].max)
         IN  IF n < pat[k].min THEN NoMatch
             ELSE TryCount(pat, k, text, i, caps,
                           IF pat[k].greedy THEN n ELSE pat[k].min, n)

\* atom k taking c units (of the n available), then the rest; else the next count
TryCount(pat, k, text, i, caps, c, n) ==
    LET caps2 == IF pat[k].cap > 0
                 THEN [caps EXCEPT ![pat[k].cap] = <<i, i + c - 1>>]
                 ELSE caps
        r == MatchFrom(pat, k + 1, text, i + c, caps2)
    IN  IF r.ok THEN r
        ELSE IF pat[k].greedy
             THEN IF c = pat[k].min THEN NoMatch
                  ELSE TryCount(pat, k, text, i, caps, c - 1, n)
             ELSE IF c = n THEN NoMatch
                  ELSE TryCount(pat, k, text, i, caps, c + 1, n)

\* the positions at which pat matches
MatchStarts(text, pat) ==
    {s \in 1..(Len(text) + 1) : MatchFrom(pat, 1, text, s, NoCaps).ok}

\* String.prototype.match without the g flag: the leftmost match
Match(text, pat) ==
    LET starts == MatchStarts(text, pat)
        first == CHOOSE s \in starts : \A t \in starts : s <= t
    IN  IF starts = {} THEN NoMatch
        ELSE [MatchFrom(pat, 1, text, first, NoCaps) EXCEPT !.from = first]

\* the text of capture group n of match m
Capture(text, m, n) == SubSeq(text, m.caps[n][1], m.caps[n][2])

\* String.prototype.includes on the upper-cased text, the needle given in units
IncludesUpper(text, needle) ==
    \E i \in 1..Len(text) :
        /\ i + Len(needle) - 1 <= Len(text)
        /\ \A j \in 1..Len(needle) : ToUpperCase(text[i + j - 1]) = needle[j]

DigitValue(u) ==
    CASE u = "0" -> 0 [] u = "1" -> 1 [] u = "2" -> 2 [] u = "3" -> 3

RECURSIVE ParseIntFrom(_, _)
ParseIntFrom(digits, acc) ==
    IF digits = <<>> THEN acc
    ELSE ParseIntFrom(Tail(digits), 10 * acc + DigitValue(Head(digits)))

\* parseInt(s, 10) of a run of decimal digits
ParseInt(digits) == ParseIntFrom(digits, 0)

(***************************************************************************)
(* extractDecision                                                         *)
(***************************************************************************)
\* /\*?\*?\s*Decision\s*\*?\*?\s*:\s*(\w+)/i
DecisionPattern ==
    << Opt({"*"}), Opt({"*"}), Star(SpaceUnits), LitI("Decision"),
       Star(SpaceUnits), Opt({"*"}), Opt({"*"}), Star(SpaceUnits), Lit(":"),
       Star(SpaceUnits), Group(Plus(WordUnits), 1) >>

\* /"decision"\s*:\s*"(\w+)"/i
JsonDecisionPattern ==
    << Lit(QUOTE), LitI("decision"), Lit(QUOTE), Star(SpaceUnits), Lit(":"),
       Star(SpaceUnits), Lit(QUOTE), Group(Plus(WordUnits), 1), Lit(QUOTE) >>

\* the three returns of the label branch; "" when the token is none of them
LabelDecision(token) ==
    IF token = "APPROVED" \/ token = "APPROVE" THEN "APPROVED"
    ELSE IF token = "BLOCKED" \/ token = "BLOCK" THEN "BLOCKED"
    ELSE IF token = "CHANGES_REQUESTED" \/ token = "CHANGES" THEN "CHANGES_REQUESTED"
    ELSE ""

\* the three returns of the JSON branch; "" when the value is none of them
JsonDecision(value) ==
    IF value \in {"APPROVED", "BLOCKED", "CHANGES_REQUESTED"} THEN value ELSE ""

\* the first match only: match() without the g flag
DecisionMatch(text) == Match(text, DecisionPattern)

JsonDecisionMatch(text) == Match(text, JsonDecisionPattern)

ReportDefaultApproved == "APPROVED"

\* "Default for report mode"
ReportDefault == "CHANGES_REQUESTED"

\* the report-mode branch of extractDecision
ReportDecision(text) ==
    LET dm == DecisionMatch(text)
        fromLabel ==
            IF IncludesUpper(text, <<"DECISION">>) /\ dm.ok
            THEN LabelDecision(Join(Capture(text, dm, 1)))
            ELSE ""
        jm == JsonDecisionMatch(text)
        fromJson ==
            IF IncludesUpper(text, <<QUOTE, "DECISION", QUOTE>>) /\ jm.ok
            THEN JsonDecision(Join(Capture(text, jm, 1)))
            ELSE ""
    IN  IF fromLabel # "" THEN fromLabel
        ELSE IF fromJson # "" THEN fromJson
        ELSE ReportDefault

\* toolCalls.find(tc => tc.toolName === name) finds a record
Find(calls, name) == \E i \in 1..Len(calls) : calls[i] = name

NormalDefaultApproved == "APPROVED"

\* "Default to changes requested if unclear"
NormalDefault == "CHANGES_REQUESTED"

\* request_changes answered in the report vocabulary
ToolDecisionUnified(calls) ==
    IF Find(calls, "approve_pull_request") THEN "APPROVED"
    ELSE IF Find(calls, "request_changes") THEN "CHANGES_REQUESTED"
    ELSE NormalDefault

\* the last of the approve_pull_request and request_changes records decides
ToolDecisionOfLastCall(calls) ==
    LET decisive == {i \in 1..Len(calls) : calls[i] \in {"approve_pull_request", "request_changes"}}
        last == CHOOSE i \in decisive : \A j \in decisive : j <= i
    IN  IF decisive = {} THEN NormalDefault
        ELSE IF calls[last] = "approve_pull_request" THEN "APPROVED"
        ELSE "BLOCKED"

\* the normal-mode branch of extractDecision
ToolDecision(calls) ==
    IF Find(calls, "approve_pull_request") THEN "APPROVED"
    ELSE IF Find(calls, "request_changes") THEN "BLOCKED"
    ELSE NormalDefault

extractDecision(text, mode, calls) ==
    IF mode THEN ReportDecision(text) ELSE ToolDecision(calls)

NoResult == [decision |-> "", statistics |-> <<>>]
NoText == <<"<none>">>

\* saveOriginalDescriptionFallback has not run: no directory created, no
\* file written, no error caught
NoBackup == [dir |-> FALSE, file |-> "", failed |-> FALSE]

\* a tool server that holds nothing
NoServer ==
    [pr |-> [k |-> "null", v |-> "null"], pages |-> <<>>, enveloped |-> FALSE]

\* a request that names no PR
NoRequest == [pullRequestId |-> "", branch |-> <<>>]

MaxSessions == 2   \* sessions one tracker holds

SessionIds == 1..MaxSessions

\* no session under this identifier
NoSession == [status |-> "none", toolCalls |-> <<>>, result |-> "", error |-> "", endTime |-> 0]

NoSessions == [id \in SessionIds |-> NoSession]

\* no call of the tracker yet; at counts the calls and is the tracker's time
NoCall == [op |-> "", id |-> 0, signalled |-> FALSE, at |-> 0]

\* no entry point has created the session
NoRun ==
    [op |-> "", pc |-> "none", sessionId |-> 0, request |-> NoRequest, reportMode |-> FALSE,
     reviewOnly |-> FALSE, enabled |-> FALSE, events |-> <<>>, descriptionEnhanced |-> "unset"]

NoRuns == [id \in SessionIds |-> NoRun]

\* no tool context set in the engine
NoContext == [sessionId |-> 0, pullRequestId |-> "", branch |-> <<>>, dryRun |-> FALSE]

\* no PR information: fetchPRInfo returned null
NoPRInfo ==
    LET undefined == [k |-> "undefined", v |-> "undefined"]
    IN  [found |-> FALSE, id |-> undefined, title |-> undefined, author |-> undefined,
         displayName |-> undefined, state |-> undefined, sourceBranch |-> undefined,
         destinationBranch |-> undefined, createdDate |-> undefined,
         updatedDate |-> undefined]

\* the report generator has not been called: nothing extracted, nothing
\* logged to standard output, no directory created, no file written, nothing
\* raised
NoReport ==
    [format |-> "", path |-> "", content |-> NoText, stdout |-> NoText,
     dir |-> FALSE, file |-> NoText, raised |-> FALSE]

(***************************************************************************)
(* extractStatisticsFromResponse and calculateStatistics                   *)
(***************************************************************************)
\* /\*\*Files Reviewed\*\*:\s*(\d+)/
FilesPattern ==
    << Lit("*"), Lit("*"), Lit("Files"), Lit(" "), Lit("Reviewed"), Lit("*"),
       Lit("*"), Lit(":"), Star(SpaceUnits), Group(Plus(DigitUnits), 1) >>

\* /\*\*Issues Found\*\*:\s*<lock>\s*(\d+)\s*\|\s*<warning>\s*(\d+)\s*\|\s*<bulb>\s*(\d+)\s*\|\s*<speech>\s*(\d+)/
IssuesPattern ==
    << Lit("*"), Lit("*"), Lit("Issues"), Lit(" "), Lit("Found"), Lit("*"),
       Lit("*"), Lit(":"),
       Star(SpaceUnits), Lit(LOCK), Star(SpaceUnits), Group(Plus(DigitUnits), 1),
       Star(SpaceUnits), Lit("|"),
       Star(SpaceUnits), Lit(WARN), Star(SpaceUnits), Group(Plus(DigitUnits), 2),
       Star(SpaceUnits), Lit("|"),
       Star(SpaceUnits), Lit(BULB), Star(SpaceUnits), Group(Plus(DigitUnits), 3),
       Star(SpaceUnits), Lit("|"),
       Star(SpaceUnits), Lit(SPEECH), Star(SpaceUnits), Group(Plus(DigitUnits), 4) >>

NoIssues == [critical |-> 0, major |-> 0, minor |-> 0, suggestions |-> 0]

\* the filesReviewed field of the statistics read from the text
FilesReviewedOf(text) ==
    LET filesMatch == Match(text, FilesPattern)
    IN  IF filesMatch.ok THEN ParseInt(Capture(text, filesMatch, 1)) ELSE 0

\* the second and third numbers exchanged
IssuesFoundSwapped(text) ==
    LET issuesMatch == Match(text, IssuesPattern)
    IN  IF issuesMatch.ok
        THEN [critical |-> ParseInt(Capture(text, issuesMatch, 1)),
              major |-> ParseInt(Capture(text, issuesMatch, 3)),
              minor |-> ParseInt(Capture(text, issuesMatch, 2)),
              suggestions |-> ParseInt(Capture(text, issuesMatch, 4))]
        ELSE NoIssues

\* the issuesFound field of the statistics read from the text
IssuesFoundOf(text) ==
    LET issuesMatch == Match(text, IssuesPattern)
    IN  IF issuesMatch.ok
        THEN [critical |-> ParseInt(Capture(text, issuesMatch, 1)),
              major |-> ParseInt(Capture(text, issuesMatch, 2)),
              minor |-> ParseInt(Capture(text, issuesMatch, 3)),
              suggestions |-> ParseInt(Capture(text, issuesMatch, 4))]
        ELSE NoIssues

\* the suggestions left out of the total
SumWithoutSuggestions(issues) ==
    issues.critical + issues.major + issues.minor

\* the totalComments the function computes from the four counters
SumOfIssues(issues) ==
    issues.critical + issues.major + issues.minor + issues.suggestions

extractStatisticsFromResponse(text) ==
    LET issues == IssuesFoundOf(text)
    IN  [filesReviewed |-> FilesReviewedOf(text),
         issuesFound |-> issues,
         totalComments |-> SumOfIssues(issues)]

\* a || b on numbers: b when a is 0
OrElse(a, b) == IF a # 0 THEN a ELSE b

\* toolCalls.filter(tc => tc.toolName === name).length
CountCalls(calls, name) == Cardinality({i \in 1..Len(calls) : calls[i] = name})

calculateStatistics(calls, text) ==
    LET diffCalls == CountCalls(calls, "get_pull_request_diff")
        commentCalls == CountCalls(calls, "add_comment")
        aiStats == extractStatisticsFromResponse(text)
    IN  [filesReviewed |-> OrElse(aiStats.filesReviewed, diffCalls),
         issuesFound |-> aiStats.issuesFound,
         toolCallsMade |-> Len(calls),
         totalComments |-> OrElse(aiStats.totalComments, commentCalls)]

parseReviewResult(text, mode, calls) ==
    [decision |-> extractDecision(text, mode, calls),
     statistics |-> calculateStatistics(calls, text)]

(***************************************************************************)
(* The responses the generation call may return: every concatenation of a  *)
(* bounded number of phrases.                                              *)
(***************************************************************************)
RECURSIVE Flatten(_)
Flatten(ss) == IF ss = <<>> THEN <<>> ELSE Head(ss) \o Flatten(Tail(ss))

TextsOver(phrases, n) ==
    {Flatten(p) : p \in UNION {[1..k -> phrases] : k \in 0..n}}

\* what a report-mode review response may say about the decision
DecisionPhrases ==
    { <<"Decision", ":", " ", "APPROVED", NL>>,
      <<"*", "*", "decision", "*", "*", " ", ":", NL>>,
      <<"Decision", ":", "pending", " ">>,
      <<QUOTE, "decision", QUOTE, ":", " ", QUOTE, "BLOCKED", QUOTE, NL>>,
      <<QUOTE, "Decision", QUOTE, ":", QUOTE, "tbd", QUOTE, NL>>,
      <<QUOTE, "decision", QUOTE, " ", ":", NL, QUOTE, "approved", QUOTE>>,
      <<"block">>,
      <<"CHANGES">>,
      <<"CHANGES", "_REQUESTED">> }

DecisionTexts == TextsOver(DecisionPhrases, MaxSegs)

DecisionTools == {"approve_pull_request", "request_changes", "get_pull_request_diff"}

FilesLabel == <<"*", "*", "Files", " ", "Reviewed", "*", "*", ":">>
IssuesLabel == <<"*", "*", "Issues", " ", "Found", "*", "*", ":">>

\* what a review response may say about its statistics
StatisticsPhrases ==
    { FilesLabel \o <<" ", "0">>,
      FilesLabel \o <<"3">>,
      FilesLabel \o <<NL, "1", "2">>,
      <<"Files", " ", "Reviewed", ":", " ", "2">>,
      <<"1">>,
      IssuesLabel \o <<" ", LOCK, " ", "1", " ", "|", " ", WARN, " ", "0", " ", "|",
                       " ", BULB, " ", "2", " ", "|", " ", SPEECH, " ", "3">>,
      IssuesLabel \o <<" ", LOCK, " ", "0", " ", "|", " ", WARN, " ", "0", " ", "|",
                       " ", BULB, " ", "0", " ", "|", " ", SPEECH, " ", "0">>,
      IssuesLabel \o <<LOCK, "2", "|", WARN, "1", NL, "|", BULB, "0", "|", SPEECH, "1", "0">>,
      IssuesLabel \o <<" ", LOCK, " ", "1", " ", "|", " ", BAREWARN, " ", "1", " ", "|",
                       " ", BULB, " ", "1", " ", "|", " ", SPEECH, " ", "1">>,
      IssuesLabel \o <<" ", WARN, " ", "2", " ", "|", " ", LOCK, " ", "1", " ", "|",
                       " ", BULB, " ", "1", " ", "|", " ", SPEECH, " ", "1">> }

StatisticsTexts == TextsOver(StatisticsPhrases, MaxSegs)

StatisticsTools == {"get_pull_request_diff", "add_comment"}

\* what an enhancement response may hold
DescriptionPhrases ==
    { <<"Here", " ">>,
      <<"#", "#", " ", "Summary">>,
      <<NL, "#", "#", " ", "Summary">>,
      <<NL, "Did">>,
      <<"#", " ", "Summary">>,
      <<FENCE, NL>>,
      <<FENCE, "md", NL>>,
      <<FENCE, "bash", NL>>,
      <<NL, FENCE>> }

DescriptionTexts == TextsOver(DescriptionPhrases, MaxParts)

(***************************************************************************)
(* extractEnhancedDescription                                              *)
(***************************************************************************)
RECURSIVE TrimStart(_)
TrimStart(s) ==
    IF s # <<>> /\ Head(s) \in SpaceUnits THEN TrimStart(Tail(s)) ELSE s

RECURSIVE TrimEnd(_)
TrimEnd(s) ==
    IF s # <<>> /\ s[Len(s)] \in SpaceUnits THEN TrimEnd(SubSeq(s, 1, Len(s) - 1)) ELSE s

\* String.prototype.trim
Trim(s) == TrimEnd(TrimStart(s))

\* s.startsWith("#") || s.startsWith("##")
StartsWithHeading(s) == s # <<>> /\ s[1] = "#"

\* any tag accepted: /```\w*\s*\n([\s\S]*?)\n```/
AnyTagBlockPattern ==
    << Lit(FENCE), Star(WordUnits), Star(SpaceUnits), Lit(NL),
       Group(Atom(AnyUnit, 0, Inf, FALSE, 0), 1), Lit(NL), Lit(FENCE) >>

\* /```(?:markdown|md)?\s*\n([\s\S]*?)\n```/
MdBlockPattern ==
    << Lit(FENCE), Opt({"markdown", "md"}), Star(SpaceUnits), Lit(NL),
       Group(Atom(AnyUnit, 0, Inf, FALSE, 0), 1), Lit(NL), Lit(FENCE) >>

MdBlockMatch(text) == Match(text, MdBlockPattern)

\* ##\s+.* : the second group of /(^|\n)(##\s+.*)/
HeaderPattern == << Lit("#"), Lit("#"), Plus(SpaceUnits), Star(DotUnits) >>

RECURSIVE SectionHeaderSearch(_, _)
\* /(^|\n)(##\s+.*)/ from position s on: the first group is the start of the
\* text, tried first, or a line break
SectionHeaderSearch(text, s) ==
    IF s > Len(text) + 1 THEN NoMatch
    ELSE LET atStart == IF s = 1 THEN MatchFrom(HeaderPattern, 1, text, 1, NoCaps)
                        ELSE NoMatch
             afterBreak == IF s <= Len(text) /\ text[s] = NL
                           THEN MatchFrom(HeaderPattern, 1, text, s + 1, NoCaps)
                           ELSE NoMatch
         IN  IF atStart.ok
             THEN [atStart EXCEPT !.from = 1, !.caps = [NoCaps EXCEPT ![2] = <<1, atStart.to - 1>>]]
             ELSE IF afterBreak.ok
             THEN [afterBreak EXCEPT !.from = s,
                                     !.caps = [NoCaps EXCEPT ![2] = <<s + 1, afterBreak.to - 1>>]]
             ELSE SectionHeaderSearch(text, s + 1)

SectionHeaderMatch(text) == SectionHeaderSearch(text, 1)

RECURSIVE IndexFrom(_, _, _)
IndexFrom(text, needle, p) ==
    IF p + Len(needle) - 1 > Len(text) THEN 0
    ELSE IF SubSeq(text, p, p + Len(needle) - 1) = needle THEN p
    ELSE IndexFrom(text, needle, p + 1)

\* String.prototype.indexOf, positions from 1; 0 when the needle is not there
IndexOf(text, needle) == IndexFrom(text, needle, 1)

\* text.slice(from - 1)
SliceFrom(text, from) == SubSeq(text, from, Len(text))

\* the fenced-block step: the content it returns, or NoText
MdBlockContent(text) ==
    LET mdBlockMatch == MdBlockMatch(text)
        content == Trim(Capture(text, mdBlockMatch, 1))
    IN  IF mdBlockMatch.ok /\ StartsWithHeading(content) THEN content ELSE NoText

\* the section-header step: what it returns, or NoText
SectionContent(text) ==
    LET sectionHeaderMatch == SectionHeaderMatch(text)
    IN  IF sectionHeaderMatch.ok
        THEN Trim(SliceFrom(text, IndexOf(text, Capture(text, sectionHeaderMatch, 2))))
        ELSE NoText

extractEnhancedDescription(text) ==
    LET trimmed == Trim(text)
    IN  IF StartsWithHeading(trimmed) THEN trimmed
        ELSE IF MdBlockContent(text) # NoText THEN MdBlockContent(text)
        ELSE IF SectionContent(text) # NoText THEN SectionContent(text)
        ELSE trimmed

(***************************************************************************)
(* The session of one run: created, tool calls recorded while the review   *)
(* generation call runs, the review response interpreted, then the         *)
(* enhancement response interpreted.                                       *)
(***************************************************************************)
\* sessionManager.createSession(request): running, no tool call recorded
\* the tools withheld in report mode
getReportModeBlockedTools ==
    {"add_comment", "approve_pull_request", "request_changes", "update_pull_request"}

\* the blocked tools of the configuration joined with the additional ones
mergeBlockedTools(configBlocked, additionalBlocked) == configBlocked \cup additionalBlocked

\* initialize, step 3: what a first initialization for a request of this mode
\* registers the tool servers with
setupMCPServers(configBlocked, mode) ==
    mergeBlockedTools(configBlocked, IF mode THEN getReportModeBlockedTools ELSE {})

\* what initialize finds: the BITBUCKET_* and JIRA_* environment variables set
\* or not, addExternalMCPServer succeeding or throwing for each server,
\* config.jira.enabled, configLoader.validate passing or throwing
Env ==
    [bitbucketCredentials : BOOLEAN, bitbucketRegisters : BOOLEAN, jiraEnabled : BOOLEAN,
     jiraCredentials : BOOLEAN, jiraRegisters : BOOLEAN, valid : BOOLEAN]

\* credentials present, registration succeeding, Jira disabled
WorkingEnv ==
    [bitbucketCredentials |-> TRUE, bitbucketRegisters |-> TRUE, jiraEnabled |-> FALSE,
     jiraCredentials |-> TRUE, jiraRegisters |-> TRUE, valid |-> TRUE]

\* no initialization has run: attempts counts the runs, env is what the last
\* one found, servers the servers registered in the engine, raised the name of
\* the error initialize threw ("" if none), warned whether a warning was logged
NoSetup == [attempts |-> 0, env |-> WorkingEnv, servers |-> {}, raised |-> "", warned |-> FALSE]

\* setupBitbucketMCP: the name of the error thrown, "" if none; the error for
\* the missing variables is thrown inside the try and rethrown by the catch
setupBitbucketMCP(env) ==
    IF ~env.bitbucketCredentials THEN "MCPServerError"
    ELSE IF ~env.bitbucketRegisters THEN "MCPServerError"
    ELSE ""

\* a Jira setup whose catch rethrows as the Bitbucket one does
setupJiraMCPRethrowing(env) ==
    [raised     |-> IF env.jiraCredentials /\ ~env.jiraRegisters THEN "MCPServerError" ELSE "",
     warned     |-> ~env.jiraCredentials,
     registered |-> env.jiraCredentials /\ env.jiraRegisters]

\* setupJiraMCP: warns and returns when a variable is missing, warns in the
\* catch when the registration throws
setupJiraMCP(env) ==
    [raised     |-> "",
     warned     |-> ~env.jiraCredentials \/ ~env.jiraRegisters,
     registered |-> env.jiraCredentials /\ env.jiraRegisters]

\* MCPServerManager.setupMCPServers: Bitbucket always, Jira when enabled
setupMCPServersIn(env) ==
    LET bitbucket == setupBitbucketMCP(env)
        jira      == setupJiraMCP(env)
    IN  IF bitbucket # ""
        THEN [raised |-> bitbucket, warned |-> FALSE, servers |-> {}]
        ELSE IF env.jiraEnabled
        THEN [raised  |-> jira.raised,
              warned  |-> jira.warned,
              servers |-> IF jira.registered THEN {"bitbucket", "jira"} ELSE {"bitbucket"}]
        ELSE [raised |-> "", warned |-> FALSE, servers |-> {"bitbucket"}]

Init ==
    /\ reportMode \in BOOLEAN
    /\ toolCalls = <<>>
    /\ responseText = <<>>
    /\ reviewResult = NoResult
    /\ enhancedDescription = NoText
    /\ pc = "running"
    /\ report = NoReport
    /\ backup = NoBackup
    /\ appendix = "none"
    /\ server = NoServer
    /\ request = NoRequest
    /\ prInfo = NoPRInfo
    /\ workflow = <<>>
    /\ instruction = <<>>
    /\ initialized = TRUE
    /\ setup = [NoSetup EXCEPT !.attempts = 1, !.servers = {"bitbucket"}]
    /\ blockedTools = setupMCPServers({}, reportMode)
    /\ sessions = NoSessions
    /\ called = NoCall
    /\ runs = NoRuns
    /\ toolContext = NoContext
    /\ executed = <<>>

\* a tool call of the agent is appended to the session's records
RecordToolCall(names) ==
    /\ pc = "running"
    /\ Len(toolCalls) < MaxCalls
    /\ \E name \in names : toolCalls' = Append(toolCalls, name)
    /\ UNCHANGED <<reportMode, responseText, reviewResult, enhancedDescription, pc>>
    /\ UNCHANGED runVars
    /\ UNCHANGED engineVars
    /\ UNCHANGED trackerVars
    /\ UNCHANGED toolVars

\* Phase 1: neurolink.generate returns the review response and
\* parseReviewResult interprets it against the session
Review(texts) ==
    /\ pc = "running"
    /\ \E text \in texts :
        /\ responseText' = text
        /\ reviewResult' = parseReviewResult(text, reportMode, toolCalls)
    /\ pc' = "parsed"
    /\ UNCHANGED <<reportMode, toolCalls, enhancedDescription>>
    /\ UNCHANGED runVars
    /\ UNCHANGED engineVars
    /\ UNCHANGED trackerVars
    /\ UNCHANGED toolVars

\* Phase 2: neurolink.generate returns the enhancement response; in report
\* mode the description is read from it
Enhance(texts) ==
    /\ pc = "parsed"
    /\ \E text \in texts :
        /\ responseText' = text
        /\ enhancedDescription' =
              IF reportMode THEN extractEnhancedDescription(text) ELSE NoText
    /\ pc' = "enhanced"
    /\ UNCHANGED <<reportMode, toolCalls, reviewResult>>
    /\ UNCHANGED runVars
    /\ UNCHANGED engineVars
    /\ UNCHANGED trackerVars
    /\ UNCHANGED toolVars

NextDecision ==
    \/ RecordToolCall(DecisionTools)
    \/ Review(DecisionTexts)

SpecDecision == Init /\ [][NextDecision]_vars

NextStatistics ==
    \/ RecordToolCall(StatisticsTools)
    \/ Review(StatisticsTexts)

SpecStatistics == Init /\ [][NextStatistics]_vars

NextEnhance ==
    \/ Review({<<"Decision", ":", " ", "APPROVED">>})
    \/ Enhance(DescriptionTexts)

SpecEnhance == Init /\ [][NextEnhance]_vars

(***************************************************************************)
(* What the claims speak of, stated on the text itself and not through the *)
(* regular expressions above.                                              *)
(***************************************************************************)
Decisions == {"APPROVED", "BLOCKED", "CHANGES_REQUESTED"}

AllIn(text, from, to, set) == \A p \in from..to : text[p] \in set

\* the first position from i on that holds no white space
SkipSpace(text, i) == i + RunLen(SpaceUnits, text, i, Inf)

\* the maximal run of units of set that starts at position i
RunAt(text, i, set) == SubSeq(text, i, i + RunLen(set, text, i, Inf) - 1)

\* position i holds the word Decision (in any case), position j its colon:
\* between them only white space and at most two emphasis markers
LabelColon(text, i, j) ==
    /\ ToUpperCase(text[i]) = "DECISION"
    /\ text[j] = ":"
    /\ \E a \in (i + 1)..j : \E n \in 0..2 :
          /\ a + n <= j
          /\ AllIn(text, i + 1, a - 1, SpaceUnits)
          /\ AllIn(text, a, a + n - 1, {"*"})
          /\ AllIn(text, a + n, j - 1, SpaceUnits)

\* the tokens that follow a Decision: label somewhere in the text, upper case
LabelTokens(text) ==
    {Join(RunAt(text, SkipSpace(text, j + 1), WordUnits)) :
        j \in {j \in 1..Len(text) : \E i \in 1..(j - 1) : LabelColon(text, i, j)}}
    \ {""}

HasDecisionLabel(text) == LabelTokens(text) # {}

\* the decisions the text's labels name
LabelDecisions(text) == {LabelDecision(t) : t \in LabelTokens(text)} \ {""}

\* position i opens a JSON field "decision": "value", k is the value's first unit
JsonFieldAt(text, i, k) ==
    /\ i + 2 <= Len(text)
    /\ text[i] = QUOTE /\ ToUpperCase(text[i + 1]) = "DECISION" /\ text[i + 2] = QUOTE
    /\ LET c == SkipSpace(text, i + 3)
           q == SkipSpace(text, c + 1)
           e == q + 1 + RunLen(WordUnits, text, q + 1, Inf)
       IN  /\ e <= Len(text)
           /\ text[c] = ":" /\ text[q] = QUOTE /\ k = q + 1 /\ e > k /\ text[e] = QUOTE

\* the values of the JSON decision fields of the text, upper case
JsonValues(text) ==
    {Join(RunAt(text, k, WordUnits)) :
        k \in {k \in 1..Len(text) : \E i \in 1..k : JsonFieldAt(text, i, k)}}

HasJsonDecisionField(text) == JsonValues(text) # {}

JsonDecisions(text) == JsonValues(text) \cap Decisions

Recorded(name) == \E i \in 1..Len(toolCalls) : toolCalls[i] = name

Parsed == pc = "parsed"

\* C1: in report mode a text with neither a Decision: label nor a JSON
\* decision field is interpreted as CHANGES_REQUESTED, whatever was recorded
C1_ReportDefaultsToChangesRequested ==
    (Parsed /\ reportMode /\ ~HasDecisionLabel(responseText)
        /\ ~HasJsonDecisionField(responseText))
    => reviewResult.decision = "CHANGES_REQUESTED"

\* the word decision is in the text, an approval was recorded, and neither a
\* label nor a JSON field is there
C1_Witness ==
    /\ Parsed /\ reportMode
    /\ Recorded("approve_pull_request")
    /\ IncludesUpper(responseText, <<"DECISION">>)
    /\ ~HasDecisionLabel(responseText) /\ ~HasJsonDecisionField(responseText)
    /\ reviewResult.decision = "CHANGES_REQUESTED"

\* C2: in report mode, when the labels of the text name one decision, that
\* decision is returned, also when the text holds several Decision: labels
C2_LabelTokenReturned ==
    (Parsed /\ reportMode)
    => \A d \in Decisions :
          LabelDecisions(responseText) = {d} => reviewResult.decision = d

\* C3: in report mode, a text with no label whose JSON decision fields name
\* one decision yields it, and a label's decision wins over a JSON field's
C3_JsonFieldThenLabelFirst ==
    (Parsed /\ reportMode)
    => \A v \in Decisions :
          /\ (~HasDecisionLabel(responseText) /\ JsonDecisions(responseText) = {v})
                => reviewResult.decision = v
          /\ \A d \in Decisions \ {v} :
                (LabelDecisions(responseText) = {d} /\ JsonDecisions(responseText) = {v})
                   => reviewResult.decision = d

\* C4: in normal mode the recorded tool calls decide, whatever the text says:
\* approve alone gives APPROVED, request_changes alone gives BLOCKED
C4_NormalModeFollowsToolCalls ==
    (Parsed /\ ~reportMode)
    => /\ (Recorded("approve_pull_request") /\ ~Recorded("request_changes"))
             => reviewResult.decision = "APPROVED"
       /\ (Recorded("request_changes") /\ ~Recorded("approve_pull_request"))
             => reviewResult.decision = "BLOCKED"

\* request_changes alone was recorded and the text's label says APPROVED
C4_Witness ==
    /\ Parsed /\ ~reportMode
    /\ Recorded("request_changes") /\ ~Recorded("approve_pull_request")
    /\ LabelDecisions(responseText) = {"APPROVED"}
    /\ reviewResult.decision = "BLOCKED"

\* C5: in normal mode with neither an approve_pull_request nor a
\* request_changes call recorded the decision is CHANGES_REQUESTED
C5_NormalDefaultsToChangesRequested ==
    (Parsed /\ ~reportMode /\ ~Recorded("approve_pull_request")
        /\ ~Recorded("request_changes"))
    => reviewResult.decision = "CHANGES_REQUESTED"

\* other calls were recorded, none of the two, and the text's label says APPROVED
C5_Witness ==
    /\ Parsed /\ ~reportMode
    /\ Len(toolCalls) = MaxCalls
    /\ ~Recorded("approve_pull_request") /\ ~Recorded("request_changes")
    /\ LabelDecisions(responseText) = {"APPROVED"}
    /\ reviewResult.decision = "CHANGES_REQUESTED"

(***************************************************************************)
(* The statistics lines, read off the text position by position.           *)
(***************************************************************************)
LabelAt(text, i, label) ==
    /\ i + Len(label) - 1 <= Len(text)
    /\ SubSeq(text, i, i + Len(label) - 1) = label

\* a number begins at position d
NumberAt(text, d) == d <= Len(text) /\ text[d] \in DigitUnits

\* the **Files Reviewed**: labels of the text that carry a number
FilesLabels(text) ==
    {i \in 1..Len(text) :
        /\ LabelAt(text, i, FilesLabel)
        /\ NumberAt(text, SkipSpace(text, i + Len(FilesLabel)))}

\* the number the label at position i carries
FilesNumber(text, i) ==
    ParseInt(RunAt(text, SkipSpace(text, i + Len(FilesLabel)), DigitUnits))

IssueMarkers == <<LOCK, WARN, BULB, SPEECH>>

RECURSIVE IssueFields(_, _, _)
\* the numbers of the marker fields n..4 of an Issues Found line, the field
\* n expected from position p on; <<>> when the line has another shape
IssueFields(text, p, n) ==
    LET m == SkipSpace(text, p)
        d == SkipSpace(text, m + 1)
        e == d + RunLen(DigitUnits, text, d, Inf)
        bar == SkipSpace(text, e)
        rest == IssueFields(text, bar + 1, n + 1)
    IN  IF ~(m <= Len(text) /\ text[m] = IssueMarkers[n] /\ NumberAt(text, d)) THEN <<>>
        ELSE IF n = 4 THEN <<ParseInt(SubSeq(text, d, e - 1))>>
        ELSE IF ~(bar <= Len(text) /\ text[bar] = "|") THEN <<>>
        ELSE IF rest = <<>> THEN <<>>
        ELSE <<ParseInt(SubSeq(text, d, e - 1))>> \o rest

\* the four numbers of the Issues Found line at position i; <<>> if none is there
IssuesLineAt(text, i) ==
    IF LabelAt(text, i, IssuesLabel)
    THEN IssueFields(text, i + Len(IssuesLabel), 1)
    ELSE <<>>

IssuesLines(text) == {i \in 1..Len(text) : IssuesLineAt(text, i) # <<>>}

Min(S) == CHOOSE x \in S : \A y \in S : x <= y

Statistics == reviewResult.statistics

C7_FilesReviewedIsLabelNumber ==
    (Parsed /\ FilesLabels(responseText) # {})
    => Statistics.filesReviewed = FilesNumber(responseText, Min(FilesLabels(responseText)))

\* C8: without an Issues Found line of the four-marker shape the four
\* counters are zero; with one they are its four numbers from left to right,
\* critical, major, minor, suggestions; and they are natural numbers always
C8_IssuesAreLineNumbers ==
    Parsed
    => LET issues == Statistics.issuesFound
           lines == IssuesLines(responseText)
           line == IssuesLineAt(responseText, Min(lines))
       IN  /\ lines = {} => issues = NoIssues
           /\ lines # {} => /\ issues.critical = line[1]
                            /\ issues.major = line[2]
                            /\ issues.minor = line[3]
                            /\ issues.suggestions = line[4]
           /\ \A f \in DOMAIN issues : issues[f] \in Nat

\* a line with four different numbers, one of two digits, was read
C8_Witness ==
    /\ Parsed
    /\ IssuesLines(responseText) # {}
    /\ Statistics.issuesFound = [critical |-> 2, major |-> 1, minor |-> 0, suggestions |-> 10]

(***************************************************************************)
(* The enhancement response, read off the text position by position.       *)
(***************************************************************************)
Enhanced == pc = "enhanced" /\ reportMode

\* the positions at which a line begins with a second-level heading, "## "
HeadingLines(text) ==
    {i \in 1..Len(text) :
        /\ i = 1 \/ text[i - 1] = NL
        /\ i + 2 <= Len(text)
        /\ text[i] = "#" /\ text[i + 1] = "#" /\ text[i + 2] = " "}

\* the fenced-block step returned its content
FencedStepReturned(text) ==
    ~StartsWithHeading(Trim(text)) /\ MdBlockContent(text) # NoText

\* position o holds a fence marker that opens a block with one of the tags
\* (or with none, if untagged is allowed), position c the line break before
\* the fence marker that closes it: after the tag only white space up to a
\* line break that comes before c
FencedBlock(text, o, c, tags, untagged) ==
    /\ text[o] = FENCE
    /\ c + 1 <= Len(text) /\ text[c] = NL /\ text[c + 1] = FENCE
    /\ \E e \in {o + 1, o + 2} :
          /\ e = o + 1 => untagged
          /\ e = o + 2 => text[o + 1] \in tags
          /\ \E b \in e..(c - 1) : text[b] = NL /\ AllIn(text, e, b, SpaceUnits)

\* what the block holds behind its opening line, trimmed
BlockContent(text, o, c, tags) ==
    Trim(SubSeq(text, IF text[o + 1] \in tags THEN o + 2 ELSE o + 1, c - 1))

\* the text is the content of a fenced block of the response
IsBlockContent(text, content, tags, untagged) ==
    \E o \in 1..Len(text) : \E c \in (o + 1)..Len(text) :
        /\ FencedBlock(text, o, c, tags, untagged)
        /\ BlockContent(text, o, c, tags) = content

\* C9: a response that does not begin with a heading and has no qualifying
\* fenced block, but a line that begins with "## ", yields exactly the text
\* from the first such line to the end, trimmed
C9_FromFirstHeadingLine ==
    (Enhanced /\ ~StartsWithHeading(Trim(responseText))
        /\ MdBlockContent(responseText) = NoText
        /\ HeadingLines(responseText) # {})
    => enhancedDescription =
          Trim(SliceFrom(responseText, Min(HeadingLines(responseText))))

\* C10: what the fenced-block step returns is the content of a block tagged
\* markdown or md, and it begins with a heading
C10_OnlyTaggedBlocks ==
    (Enhanced /\ FencedStepReturned(responseText))
    => /\ StartsWithHeading(enhancedDescription)
       /\ IsBlockContent(responseText, enhancedDescription, {"markdown", "md"}, FALSE)

\* C10 as amended: what the fenced-block step returns is the content of a
\* block whose opening fence marker carries the tag markdown or md or no tag
\* at all, and it begins with a heading
C10_OnlyMarkdownOrUntaggedBlocks ==
    (Enhanced /\ FencedStepReturned(responseText))
    => /\ StartsWithHeading(enhancedDescription)
       /\ IsBlockContent(responseText, enhancedDescription, {"markdown", "md"}, TRUE)

\* the content of an untagged block was returned, and the response holds a
\* block tagged bash too
C10_Witness ==
    /\ Enhanced /\ FencedStepReturned(responseText)
    /\ \E i \in 1..Len(responseText) : responseText[i] = "bash"
    /\ \A i \in 1..Len(responseText) : responseText[i] \notin {"markdown", "md"}
    /\ enhancedDescription = <<"#", " ", "Summary">>

(***************************************************************************)
(* ReportGenerator: extractJSONContent and writeReportFromAIResponse, and   *)
(* the report step of startReview.                                          *)
(***************************************************************************)
\* /```json\s*([\s\S]*?)\s*```/
JsonBlockPattern ==
    << Lit(FENCE), Lit("json"), Star(SpaceUnits),
       Group(Atom(AnyUnit, 0, Inf, FALSE, 0), 1), Star(SpaceUnits), Lit(FENCE) >>

\* JSON.parse(response) does not raise, for the documents of the corpus
ParsesAsJSON(response) ==
    Trim(response) \in {<<"1">>, <<"{", "}">>, <<"{", QUOTE, "c", QUOTE, ":", "1", "}">>}

extractJSONContent(response) ==
    LET jsonBlockMatch == Match(response, JsonBlockPattern)
    IN  IF jsonBlockMatch.ok THEN Trim(Capture(response, jsonBlockMatch, 1))
        ELSE IF ParsesAsJSON(response) THEN response
        ELSE response

\* writeFile(path, content.trim(), "utf-8")
Written(content) == Trim(content)

\* the path sentinel of standard output
STDOUT == "-"

\* fs: "ok", or the call that raises, "mkdir" or "writeFile"
writeReportFromAIResponse(response, format, path, fs) ==
    LET content == IF format = "json" THEN extractJSONContent(response) ELSE response
        base == [NoReport EXCEPT !.format = format, !.path = path, !.content = content]
    IN  IF path = STDOUT THEN [base EXCEPT !.stdout = content]
        ELSE IF fs = "mkdir" THEN [base EXCEPT !.raised = TRUE]
        ELSE IF fs = "writeFile" THEN [base EXCEPT !.dir = TRUE, !.raised = TRUE]
        ELSE [base EXCEPT !.dir = TRUE, !.file = Written(content)]

\* request.reportFormat: "" when unset
ReportFormats == {"md", "json", ""}

\* reportGenerator.generateDefaultPath(...), the time stamp left out
DefaultReportPath(format) ==
    IF format = "json" THEN ".yama/reports/pr-unknown.json" ELSE ".yama/reports/pr-unknown.md"

\* request.reportPath: "" when unset
ReportPaths == {STDOUT, "out/report", ""}

FsOutcomes == {"ok", "mkdir", "writeFile"}

\* what a report-mode review response may hold around its report
ReportPhrases ==
    { <<"Here", " ">>,
      <<FENCE, "json", NL, "{", QUOTE, "c", QUOTE, ":", "1", "}", NL, FENCE, NL>>,
      <<FENCE, "json", "c", NL, "{", "}", NL, FENCE, NL>>,
      <<" ", "{", "}", NL>>,
      <<FENCE, "json", " ", "{", "}">>,
      <<NL, "#", " ", "Summary", NL>>,
      <<FENCE, "bash", NL, "Did", NL, FENCE, NL>>,
      <<"Decision", ":", " ", "APPROVED">> }

ReportTexts == TextsOver(ReportPhrases, MaxSegs)

\* generateAndWriteReport inside the try block of startReview: the report
\* is written from the review response; if the writer raises, the catch block
\* fails the session and raises again
GenerateAndWriteReport ==
    /\ pc = "parsed" /\ reportMode
    /\ \E reportFormat \in ReportFormats, reportPath \in ReportPaths, fs \in FsOutcomes :
          LET format == IF reportFormat = "" THEN "md" ELSE reportFormat
              path == IF reportPath = "" THEN DefaultReportPath(format) ELSE reportPath
              done == writeReportFromAIResponse(responseText, format, path, fs)
          IN  /\ report' = done
              /\ pc' = IF done.raised THEN "failed" ELSE "reported"
    /\ UNCHANGED <<reportMode, toolCalls, responseText, reviewResult, enhancedDescription>>
    /\ UNCHANGED <<backup, appendix, server, request, prInfo, workflow, instruction>>
    /\ UNCHANGED engineVars
    /\ UNCHANGED trackerVars
    /\ UNCHANGED toolVars

\* the end of startReview: sessionManager.completeSession and the return
CompleteReview ==
    /\ pc = IF reportMode THEN "reported" ELSE "parsed"
    /\ pc' = "completed"
    /\ UNCHANGED <<reportMode, toolCalls, responseText, reviewResult, enhancedDescription>>
    /\ UNCHANGED runVars
    /\ UNCHANGED engineVars
    /\ UNCHANGED trackerVars
    /\ UNCHANGED toolVars

NextReport ==
    \/ Review(ReportTexts)
    \/ GenerateAndWriteReport
    \/ CompleteReview

SpecReport == Init /\ [][NextReport]_vars

(***************************************************************************)
(* The report of a response, read off the text.                             *)
(***************************************************************************)
ReportWritten == report # NoReport

\* position o holds a fence marker tagged json (the tag is the whole run of
\* word characters behind the marker) and a later fence marker closes it
JsonBlockAt(text, o) ==
    /\ o + 1 <= Len(text)
    /\ text[o] = FENCE /\ text[o + 1] = "json"
    /\ o + 2 <= Len(text) => text[o + 2] \notin WordUnits
    /\ \E c \in (o + 2)..Len(text) : text[c] = FENCE

JsonBlocks(text) == {o \in 1..Len(text) : JsonBlockAt(text, o)}

\* the interior of the block opened at o: up to the next fence marker
JsonInterior(text, o) ==
    LET c == Min({k \in (o + 2)..Len(text) : text[k] = FENCE})
    IN  Trim(SubSeq(text, o + 2, c - 1))

\* C11: of a json report the extracted content is the trimmed interior of
\* the response's block tagged json, and the response unchanged if it has
\* no such block
C11_JsonBlockInteriorOrUnchanged ==
    (ReportWritten /\ report.format = "json")
    => report.content =
          IF JsonBlocks(responseText) # {}
          THEN JsonInterior(responseText, Min(JsonBlocks(responseText)))
          ELSE responseText

\* C12: of a markdown report the content emitted, to the file or to standard
\* output, is the trimmed response; to standard output, no directory is
\* created and no file written
C12_MarkdownEmittedTrimmed ==
    (ReportWritten /\ report.format = "md" /\ ~report.raised)
    => IF report.path = STDOUT
       THEN /\ report.stdout = Trim(responseText)
            /\ ~report.dir /\ report.file = NoText
       ELSE report.file = Trim(responseText)

\* C13: a report write that raises does not fail the session
C13_ReportWriteFailureNotFatal ==
    (ReportWritten /\ report.raised) => pc # "failed"

(***************************************************************************)
(* startReviewAndEnhance, Phase 2: the original description is backed up    *)
(* (normal mode), the enhancement response is generated, and (report mode)  *)
(* the enhanced description is appended to the report file.                 *)
(***************************************************************************)
\* without the catch block
BackupRaisesUncaught(fs) == fs # "ok"

\* what the try block of saveOriginalDescriptionFallback lets out: nothing,
\* the catch block only logs
BackupRaises(fs) == FALSE

\* the description the recorded get_pull_request call holds: "" when the
\* call has no result or an empty description
Descriptions == {"", "Original"}

\* saveOriginalDescriptionFallback(sessionId, request), before the
\* enhancement of a run that is not in report mode
SaveOriginalDescriptionFallback ==
    /\ pc = "parsed" /\ ~reportMode
    /\ \E originalDescription \in Descriptions, fs \in FsOutcomes :
          IF ~Find(toolCalls, "get_pull_request") \/ originalDescription = ""
          THEN backup' = NoBackup /\ pc' = "backedup"
          ELSE /\ backup' = [dir |-> fs # "mkdir",
                             file |-> IF fs = "ok" THEN originalDescription ELSE "",
                             failed |-> fs # "ok"]
               /\ pc' = IF BackupRaises(fs) THEN "failed" ELSE "backedup"
    /\ UNCHANGED <<reportMode, toolCalls, responseText, reviewResult, enhancedDescription>>
    /\ UNCHANGED <<report, appendix, server, request, prInfo, workflow, instruction>>
    /\ UNCHANGED engineVars
    /\ UNCHANGED trackerVars
    /\ UNCHANGED toolVars

\* what the try block of appendEnhancedDescriptionToReport lets out
AppendRaises(fs) == FALSE

\* the outcomes of readFile and writeFile in appendEnhancedDescription
AppendOutcomes == {"ok", "readFile", "writeFile"}

\* the responses of the enhancement call
EnhancementTexts == {<<>>, <<"#", " ", "Summary">>, <<"Here", " ", "#", "#", " ", "Summary">>}

\* the enhancement generation call and what follows it: in report mode the
\* description is read from the response and, if there is one, appended to
\* the report file
EnhanceDescription ==
    /\ pc = IF reportMode THEN "reported" ELSE "backedup"
    /\ \E text \in EnhancementTexts, fs \in AppendOutcomes :
          LET description == IF reportMode THEN extractEnhancedDescription(text) ELSE NoText
              appends == reportMode /\ description # <<>>
              \* readFile of the standard output sentinel finds no file
              outcome == IF report.path = STDOUT /\ fs = "ok" THEN "readFile" ELSE fs
          IN  /\ responseText' = text
              /\ enhancedDescription' = description
              /\ appendix' = IF ~appends THEN "none"
                             ELSE IF outcome = "ok" THEN "appended" ELSE "failed"
              /\ report' = IF appends /\ outcome = "ok"
                           THEN [report EXCEPT !.file = @ \o <<NL, "-", NL>> \o description \o <<NL>>]
                           ELSE report
              /\ pc' = IF appends /\ AppendRaises(outcome) THEN "failed" ELSE "enhanced"
    /\ UNCHANGED <<reportMode, toolCalls, reviewResult, backup, server, request, prInfo>>
    /\ UNCHANGED <<workflow, instruction>>
    /\ UNCHANGED engineVars
    /\ UNCHANGED trackerVars
    /\ UNCHANGED toolVars

\* request.reviewOnly, or the enhancement disabled in the configuration
SkipEnhancement ==
    /\ pc = IF reportMode THEN "reported" ELSE "parsed"
    /\ pc' = "enhanced"
    /\ UNCHANGED <<reportMode, toolCalls, responseText, reviewResult, enhancedDescription>>
    /\ UNCHANGED runVars
    /\ UNCHANGED engineVars
    /\ UNCHANGED trackerVars
    /\ UNCHANGED toolVars

\* the end of startReviewAndEnhance: completeSession and the return
CompleteEnhance ==
    /\ pc = "enhanced"
    /\ pc' = "completed"
    /\ UNCHANGED <<reportMode, toolCalls, responseText, reviewResult, enhancedDescription>>
    /\ UNCHANGED runVars
    /\ UNCHANGED engineVars
    /\ UNCHANGED trackerVars
    /\ UNCHANGED toolVars

EnhanceTools == {"get_pull_request", "add_comment"}

NextReviewAndEnhance ==
    \/ RecordToolCall(EnhanceTools)
    \/ Review({<<"Decision", ":", " ", "BLOCKED">>, <<>>})
    \/ GenerateAndWriteReport
    \/ SaveOriginalDescriptionFallback
    \/ EnhanceDescription
    \/ SkipEnhancement
    \/ CompleteEnhance

SpecReviewAndEnhance == Init /\ [][NextReviewAndEnhance]_vars

\* C14: from the step in which the backup write or the append to the report
\* fails, the run does not fail and the review result stays what it was
C14_BestEffortFailuresSwallowed ==
    [][(backup'.failed \/ appendix' = "failed")
          => (pc' # "failed" /\ reviewResult' = reviewResult)]_vars

\* the run is completed although the backup write failed
C14_Witness ==
    /\ pc = "completed" /\ backup.failed
    /\ reviewResult.decision = "CHANGES_REQUESTED"

\* the run is completed although the append to the report failed
C14_AppendFailedCompleted ==
    /\ pc = "completed" /\ appendix = "failed"
    /\ reviewResult.decision = "BLOCKED"

(***************************************************************************)
(* The values the tool servers return: JSON values.  A string is a sequence *)
(* of pieces (its text is their concatenation), a number its digits, an     *)
(* object a function from its keys to values.                               *)
(***************************************************************************)
Str(pieces) == [k |-> "string", v |-> pieces]
Num(digits) == [k |-> "number", v |-> digits]
Bool(b) == [k |-> "boolean", v |-> IF b THEN "true" ELSE "false"]
Null == [k |-> "null", v |-> "null"]
Undefined == [k |-> "undefined", v |-> "undefined"]
Obj(members) == [k |-> "object", v |-> members]
Arr(elements) == [k |-> "array", v |-> elements]

\* x.key, and x?.key: undefined where x has no such member
Get(x, key) ==
    IF x.k = "object" THEN (IF key \in DOMAIN x.v THEN x.v[key] ELSE Undefined)
    ELSE Undefined

\* the values JavaScript takes for false in a condition
Falsy(x) ==
    \/ x.k \in {"undefined", "null"}
    \/ x.k = "string" /\ x.v = <<>>
    \/ x.k = "number" /\ x.v = "0"
    \/ x.k = "boolean" /\ x.v = "false"

\* x === false
IsFalse(x) == x.k = "boolean" /\ x.v = "false"

\* a || b
Either(a, b) == IF Falsy(a) THEN b ELSE a

\* the keys of the payloads, in the order JSON.stringify writes them
KeyOrder ==
    << "id", "title", "state", "author", "author_username", "user", "displayName",
       "display_name", "name", "source_branch", "destination_branch", "fromRef",
       "toRef", "displayId", "source", "destination", "branch", "created_on",
       "createdDate", "updated_on", "updatedDate", "values", "isLastPage",
       "content", "type", "text" >>

NumberTokens == {"0", "1", "2", "3", "4"}

RECURSIVE Stringify(_)
RECURSIVE StringifyMembers(_, _, _)

\* the keys of an object that JSON.stringify writes: a member that is
\* undefined is left out
WrittenKeys(members) ==
    LET Present(key) == key \in DOMAIN members /\ members[key].k # "undefined"
    IN  SelectSeq(KeyOrder, Present)
RECURSIVE StringifyElements(_, _)

\* JSON.stringify(x): the JSON text, token by token
Stringify(x) ==
    CASE x.k = "string" -> <<QUOTE>> \o x.v \o <<QUOTE>>
      [] x.k = "object" -> <<"{">> \o StringifyMembers(x.v, WrittenKeys(x.v), 1) \o <<"}">>
      [] x.k = "array" -> <<"[">> \o StringifyElements(x.v, 1) \o <<"]">>
      [] OTHER -> <<x.v>>

\* the members of the keys from number n on
StringifyMembers(members, keys, n) ==
    IF n > Len(keys) THEN <<>>
    ELSE (IF n = 1 THEN <<>> ELSE <<",">>)
         \o <<QUOTE, keys[n], QUOTE, ":">> \o Stringify(members[keys[n]])
         \o StringifyMembers(members, keys, n + 1)

StringifyElements(elements, n) ==
    IF n > Len(elements) THEN <<>>
    ELSE (IF n = 1 THEN <<>> ELSE <<",">>) \o Stringify(elements[n])
         \o StringifyElements(elements, n + 1)

ParseError == [ok |-> FALSE, val |-> Undefined, next |-> 0]

ParseOk(val, next) == [ok |-> TRUE, val |-> val, next |-> next]

\* the token at position i, "" behind the end
TokenAt(tokens, i) == IF i <= Len(tokens) THEN tokens[i] ELSE ""

RECURSIVE ParseValue(_, _)
RECURSIVE ParseMembers(_, _, _)
RECURSIVE ParseElements(_, _, _)

\* one JSON value from position i on
ParseValue(tokens, i) ==
    LET t == TokenAt(tokens, i)
    IN  CASE t = QUOTE ->
               LET closing == {j \in (i + 1)..Len(tokens) : tokens[j] = QUOTE}
               IN  IF closing = {} THEN ParseError
                   ELSE LET j == CHOOSE c \in closing : \A d \in closing : c <= d
                        IN  ParseOk(Str(SubSeq(tokens, i + 1, j - 1)), j + 1)
          [] t = "{" ->
               IF TokenAt(tokens, i + 1) = "}" THEN ParseOk(Obj(<<>>), i + 2)
               ELSE ParseMembers(tokens, i + 1, <<>>)
          [] t = "[" ->
               IF TokenAt(tokens, i + 1) = "]" THEN ParseOk(Arr(<<>>), i + 2)
               ELSE ParseElements(tokens, i + 1, <<>>)
          [] t \in {"true", "false"} -> ParseOk(Bool(t = "true"), i + 1)
          [] t = "null" -> ParseOk(Null, i + 1)
          [] t \in NumberTokens -> ParseOk(Num(t), i + 1)
          [] OTHER -> ParseError

\* "key": value, then "," and more members, or "}"
ParseMembers(tokens, i, members) ==
    IF ~(TokenAt(tokens, i) = QUOTE /\ TokenAt(tokens, i + 2) = QUOTE
           /\ TokenAt(tokens, i + 3) = ":")
    THEN ParseError
    ELSE LET r == ParseValue(tokens, i + 4)
             more == (tokens[i + 1] :> r.val) @@ members
         IN  IF ~r.ok THEN ParseError
             ELSE IF TokenAt(tokens, r.next) = "," THEN ParseMembers(tokens, r.next + 1, more)
             ELSE IF TokenAt(tokens, r.next) = "}" THEN ParseOk(Obj(more), r.next + 1)
             ELSE ParseError

ParseElements(tokens, i, elements) ==
    LET r == ParseValue(tokens, i)
        more == Append(elements, r.val)
    IN  IF ~r.ok THEN ParseError
        ELSE IF TokenAt(tokens, r.next) = "," THEN ParseElements(tokens, r.next + 1, more)
        ELSE IF TokenAt(tokens, r.next) = "]" THEN ParseOk(Arr(more), r.next + 1)
        ELSE ParseError

\* JSON.parse(text): ok is FALSE where it raises
JSONParse(tokens) ==
    LET r == ParseValue(tokens, 1)
    IN  IF r.ok /\ r.next = Len(tokens) + 1 THEN r ELSE ParseError

(***************************************************************************)
(* PR resolution: unwrapMCPResponse, mapToPRDisplayInfo, fetchPRByBranch    *)
(* and fetchPRInfo.                                                         *)
(***************************************************************************)
\* the response is handed on as it came
unwrapNothing(response) == response

\* { content: [{ type: "text", text: "...json..." }] } gives the parsed text,
\* or the text itself if it does not parse; anything else is returned as is
unwrapMCPResponse(response) ==
    LET content == Get(response, "content")
        contentItem == content.v[1]
        text == Get(contentItem, "text")
        parsed == JSONParse(text.v)
    IN  IF ~Falsy(content) /\ content.k = "array" /\ Len(content.v) > 0
        THEN IF Get(contentItem, "type").k = "string"
                  /\ Get(contentItem, "type").v = <<"text">>
                  /\ text.k = "string"
             THEN (IF parsed.ok THEN parsed.val ELSE text)
             ELSE response
        ELSE response

mapToPRDisplayInfo(pr) ==
    LET sourceBranch ==
            Either(Either(Either(Get(pr, "source_branch"),
                                 Get(Get(pr, "fromRef"), "displayId")),
                          Get(Get(Get(pr, "source"), "branch"), "name")),
                   Str(<<"unknown">>))
        destinationBranch ==
            Either(Either(Either(Get(pr, "destination_branch"),
                                 Get(Get(pr, "toRef"), "displayId")),
                          Get(Get(Get(pr, "destination"), "branch"), "name")),
                   Str(<<"unknown">>))
        author == Get(pr, "author")
        authorObj == Either(Get(author, "user"), author)
        authorName ==
            IF author.k = "string" THEN author
            ELSE IF ~Falsy(author)
            THEN Either(Either(Get(authorObj, "displayName"), Get(authorObj, "display_name")),
                        Str(<<"Unknown">>))
            ELSE Str(<<"Unknown">>)
        authorUsername ==
            IF author.k = "string" THEN Either(Get(pr, "author_username"), author)
            ELSE IF ~Falsy(author)
            THEN Either(Get(authorObj, "name"), Str(<<"unknown">>))
            ELSE Str(<<"unknown">>)
    IN  [found |-> TRUE, id |-> Get(pr, "id"), title |-> Get(pr, "title"),
         author |-> authorUsername, displayName |-> authorName,
         state |-> Get(pr, "state"), sourceBranch |-> sourceBranch,
         destinationBranch |-> destinationBranch,
         createdDate |-> Either(Get(pr, "created_on"), Get(pr, "createdDate")),
         updatedDate |-> Either(Get(pr, "updated_on"), Get(pr, "updatedDate"))]

\* the text of the fully-qualified ref of a branch name
REFS_HEADS == "refs/heads/"

Ref(name) == <<REFS_HEADS>> \o name

\* the text a value takes inside a template literal
TextOf(x) == IF x.k = "string" THEN x.v ELSE <<x.v>>

\* only a branch of the very same text is matched
MatchesExactly(pr, branchName) ==
    LET sourceBranch == Either(Get(pr, "source_branch"), Str(<<>>))
    IN  sourceBranch.k = "string" /\ sourceBranch.v = branchName

\* the predicate of result.values.find in fetchPRByBranch
MatchesBranch(pr, branchName) ==
    LET sourceBranch ==
            Either(Either(Either(Either(Get(pr, "source_branch"),
                                        Get(Get(pr, "fromRef"), "displayId")),
                                 Get(Get(pr, "fromRef"), "id")),
                          Get(Get(Get(pr, "source"), "branch"), "name")),
                   Str(<<>>))
    IN  \/ sourceBranch.k = "string" /\ sourceBranch.v = branchName
        \/ sourceBranch.k = "string" /\ sourceBranch.v = Ref(branchName)
        \/ Ref(TextOf(sourceBranch)) = branchName

\* const pageSize = 50
PageSize == 50

\* what the tool server answers: the value itself, or the value as JSON text
\* in the envelope of the tool protocol
Envelope(value) ==
    Obj("content" :> Arr(<<Obj(("type" :> Str(<<"text">>))
                                @@ ("text" :> Str(Stringify(value))))>>))

Answer(srv, value) == IF srv.enveloped THEN Envelope(value) ELSE value

\* executeTool("list_pull_requests", {..., limit: pageSize, start}): the page
\* the server holds at that offset, an empty last page behind its listing
ListPullRequests(srv, start) ==
    LET n == (start \div PageSize) + 1
    IN  Answer(srv,
               IF n <= Len(srv.pages) THEN srv.pages[n]
               ELSE Obj(("values" :> Arr(<<>>)) @@ ("isLastPage" :> Bool(TRUE))))

\* executeTool("get_pull_request", ...)
GetPullRequest(srv) == Answer(srv, srv.pr)

\* Array.prototype.find: the index of the first matching element, or 0
RECURSIVE FindMatching(_, _, _)
FindMatching(values, branchName, n) ==
    IF n > Len(values) THEN 0
    ELSE IF MatchesBranch(values[n], branchName) THEN n
    ELSE FindMatching(values, branchName, n + 1)

\* a page is asked for whatever the last one held
AnotherPageAlways(result) == TRUE

\* if (result.isLastPage === false || result.values.length === pageSize)
AnotherPage(result) ==
    IsFalse(Get(result, "isLastPage")) \/ Len(Get(result, "values").v) = PageSize

RECURSIVE SearchPages(_, _, _)
\* the loop of fetchPRByBranch from offset start on: the PR found, or the
\* not-found error raised (the listing is finite), and the offsets the pages
\* were asked at
SearchPages(srv, branchName, start) ==
    LET result == unwrapMCPResponse(ListPullRequests(srv, start))
        values == Get(result, "values")
        n == FindMatching(values.v, branchName, 1)
        further == SearchPages(srv, branchName, start + PageSize)
    IN  IF Falsy(values) \/ values.k # "array" \/ Len(values.v) = 0
        THEN [raised |-> TRUE, info |-> NoPRInfo, asked |-> <<start>>]
        ELSE IF n > 0
        THEN [raised |-> FALSE, info |-> mapToPRDisplayInfo(values.v[n]), asked |-> <<start>>]
        ELSE IF AnotherPage(result)
        THEN [further EXCEPT !.asked = <<start>> \o @]
        ELSE [raised |-> TRUE, info |-> NoPRInfo, asked |-> <<start>>]

fetchPRByBranch(srv, req) == SearchPages(srv, req.branch, 0)

\* fetchPRInfo(req): by identifier, else by branch, else null; whatever
\* is raised inside is caught and gives null
fetchPRInfo(srv, req) ==
    LET prData == unwrapMCPResponse(GetPullRequest(srv))
        byBranch == fetchPRByBranch(srv, req)
    IN  IF req.pullRequestId # ""
        THEN (IF Falsy(prData) THEN NoPRInfo ELSE mapToPRDisplayInfo(prData))
        ELSE IF req.branch # <<>>
        THEN (IF byBranch.raised THEN NoPRInfo ELSE byBranch.info)
        ELSE NoPRInfo

\* one this.neurolink.executeTool(tool, {..., start}) of the orchestrator
Execution(tool, start) == [tool |-> tool, start |-> start]

\* the executeTool calls fetchPRInfo makes, in order
Executions(srv, req) ==
    IF req.pullRequestId # ""
    THEN <<Execution("get_pull_request", 0)>>
    ELSE IF req.branch # <<>>
    THEN [i \in 1..Len(fetchPRByBranch(srv, req).asked) |->
             Execution("list_pull_requests", fetchPRByBranch(srv, req).asked[i])]
    ELSE <<>>

(***************************************************************************)
(* The tool servers and requests of the model, and the resolution step of   *)
(* startReview.                                                             *)
(***************************************************************************)
MaxListed == 2     \* open PRs a server lists

FeatureX == <<"feature/x">>

\* the payload shapes of the servers: flattened, raw with both names of the
\* source, raw with the ref only, another branch, a ref qualified twice
PRPayloads ==
    { Obj(("id" :> Num("1")) @@ ("title" :> Str(<<"One">>)) @@ ("state" :> Str(<<"OPEN">>))
          @@ ("author" :> Str(<<"Ann">>)) @@ ("author_username" :> Str(<<"ann">>))
          @@ ("source_branch" :> Str(FeatureX)) @@ ("destination_branch" :> Str(<<"main">>))
          @@ ("created_on" :> Str(<<"Monday">>))),
      Obj(("id" :> Num("2")) @@ ("title" :> Str(<<"Two">>))
          @@ ("author" :> Obj("user" :> Obj(("displayName" :> Str(<<"Bob">>))
                                            @@ ("name" :> Str(<<"bob">>)))))
          @@ ("fromRef" :> Obj(("displayId" :> Str(FeatureX)) @@ ("id" :> Str(Ref(FeatureX)))))
          @@ ("toRef" :> Obj("displayId" :> Str(<<"main">>)))
          @@ ("createdDate" :> Num("3"))),
      Obj(("id" :> Num("3")) @@ ("author" :> Obj("display_name" :> Str(<<"Cy">>)))
          @@ ("fromRef" :> Obj("id" :> Str(Ref(FeatureX))))),
      Obj(("id" :> Num("4")) @@ ("title" :> Str(<<>>))
          @@ ("source" :> Obj("branch" :> Obj("name" :> Str(<<"main">>))))
          @@ ("updated_on" :> Null) @@ ("updatedDate" :> Str(<<"Friday">>))),
      Obj(("id" :> Num("0")) @@ ("source_branch" :> Str(Ref(Ref(FeatureX))))) }

\* a page of the listing; isLastPage false or left out
Page(prs, more) ==
    IF more THEN Obj(("values" :> Arr(prs)) @@ ("isLastPage" :> Bool(FALSE)))
    ELSE Obj("values" :> Arr(prs))

\* a listing cut into two pages behind its first c PRs (one page if a part
\* is empty)
PagesOf(prs, c, more) ==
    IF prs = <<>> THEN <<>>
    ELSE IF c = 0 \/ c = Len(prs) THEN <<Page(prs, more)>>
    ELSE <<Page(SubSeq(prs, 1, c), more), Page(SubSeq(prs, c + 1, Len(prs)), FALSE)>>

Listings == UNION {[1..n -> PRPayloads] : n \in 0..MaxListed}

Servers ==
    {[pr |-> pr, pages |-> <<>>, enveloped |-> e] :
        pr \in PRPayloads \cup {Null}, e \in BOOLEAN}
    \cup
    {[pr |-> Null, pages |-> PagesOf(prs, c, more), enveloped |-> e] :
        prs \in Listings, c \in 0..1, more \in BOOLEAN, e \in BOOLEAN}

Requests ==
    { [pullRequestId |-> "1", branch |-> <<>>],
      [pullRequestId |-> "", branch |-> FeatureX],
      [pullRequestId |-> "", branch |-> Ref(FeatureX)],
      [pullRequestId |-> "", branch |-> <<"gone">>],
      NoRequest }

\* the orchestrator before a run, the tool server holding what it holds
InitResolve ==
    /\ reportMode \in BOOLEAN
    /\ toolCalls = <<>>
    /\ responseText = <<>>
    /\ reviewResult = NoResult
    /\ enhancedDescription = NoText
    /\ pc = "idle"
    /\ report = NoReport
    /\ backup = NoBackup
    /\ appendix = "none"
    /\ server \in Servers
    /\ request = NoRequest
    /\ prInfo = NoPRInfo
    /\ workflow = <<>>
    /\ instruction = <<>>
    /\ initialized = TRUE
    /\ setup = [NoSetup EXCEPT !.attempts = 1, !.servers = {"bitbucket"}]
    /\ blockedTools = setupMCPServers({}, reportMode)
    /\ sessions = NoSessions
    /\ called = NoCall
    /\ runs = NoRuns
    /\ toolContext = NoContext
    /\ executed = <<>>

\* the head of startReview and of startReviewAndEnhance: fetchPRInfo, the
\* request completed with the identifier found, then createSession; the run
\* goes on whether PR information was found or not
FetchPRInfo ==
    /\ pc = "idle"
    /\ \E r \in Requests :
          LET info == fetchPRInfo(server, r)
          IN  /\ prInfo' = info
              /\ executed' = Executions(server, r)
              /\ request' = IF info.found /\ r.pullRequestId = "" /\ ~Falsy(info.id)
                            THEN [r EXCEPT !.pullRequestId = info.id.v]
                            ELSE r
    /\ pc' = "running"
    /\ UNCHANGED <<reportMode, toolCalls, responseText, reviewResult, enhancedDescription>>
    /\ UNCHANGED <<report, backup, appendix, server, workflow, instruction>>
    /\ UNCHANGED engineVars
    /\ UNCHANGED trackerVars

NextResolve ==
    \/ FetchPRInfo
    \/ Review({<<"Decision", ":", " ", "APPROVED">>})

SpecResolve == InitResolve /\ [][NextResolve]_vars

(***************************************************************************)
(* The resolution of a request, read off what the server lists.             *)
(***************************************************************************)
Resolved == pc # "idle"

\* the request as it was made: by branch, the identifier came from the PR found
RequestMade ==
    IF request.branch # <<>> THEN [request EXCEPT !.pullRequestId = ""] ELSE request

ByBranch == Resolved /\ request.branch # <<>>

RECURSIVE Concat(_)
Concat(pages) ==
    IF pages = <<>> THEN <<>> ELSE Get(Head(pages), "values").v \o Concat(Tail(pages))

\* every PR the server lists, page after page
Listed == Concat(server.pages)

\* the PRs the pagination gets to see: those of the first page, and those of
\* the second if the first says it is not the last
Visible ==
    IF Len(server.pages) = 2 /\ ~IsFalse(Get(server.pages[1], "isLastPage"))
    THEN Get(server.pages[1], "values").v
    ELSE Listed

\* the name the payload gives for the source branch of the PR
SourceBranchOf(pr) ==
    IF "source_branch" \in DOMAIN pr.v THEN pr.v["source_branch"].v
    ELSE IF "fromRef" \in DOMAIN pr.v
    THEN (IF "displayId" \in DOMAIN pr.v["fromRef"].v
          THEN pr.v["fromRef"].v["displayId"].v ELSE pr.v["fromRef"].v["id"].v)
    ELSE pr.v["source"].v["branch"].v["name"].v

\* the places among the visible PRs of those that come from one of the branches
From(branches) == {n \in 1..Len(Visible) : SourceBranchOf(Visible[n]) \in branches}

\* C15: for a request by branch that no listed PR matches, no review is
\* generated: the run ends with the not-found error
C15_NotFoundIsSurfaced ==
    (ByBranch /\ \A n \in 1..Len(Listed) : ~MatchesBranch(Listed[n], request.branch))
    => pc \notin {"running", "parsed"}

C17_EnvelopeTransparent ==
    (Resolved /\ server.enveloped)
    => prInfo = fetchPRInfo([server EXCEPT !.enveloped = FALSE], RequestMade)

\* resolved by branch through two enveloped pages, the PR a raw payload
C17_Witness ==
    /\ ByBranch /\ server.enveloped
    /\ Len(server.pages) = 2 /\ From({FeatureX}) = {2}
    /\ prInfo.found /\ prInfo.id = Num("2") /\ prInfo.displayName = Str(<<"Bob">>)

\* resolved by identifier from an enveloped answer
C17_WitnessByIdentifier ==
    /\ Resolved /\ server.enveloped /\ request.branch = <<>>
    /\ request.pullRequestId = "1"
    /\ prInfo.found /\ prInfo.sourceBranch = Str(<<"main">>)

(***************************************************************************)
(* PromptBuilder: escapeXML, buildProjectConfigXML, buildTaskInstructions   *)
(* and buildReviewInstructions.  A text is a sequence of units here too: a  *)
(* character of a configured text, or a whole piece of a template.          *)
(***************************************************************************)
MaxChars == 3      \* characters of the configured workflow instructions

\* the characters of the configured texts
XMLChars == {"&", "<", ">", QUOTE, "'", "a", ";"}

AMP == <<"&", "a", "m", "p", ";">>
LT == <<"&", "l", "t", ";">>
GT == <<"&", "g", "t", ";">>
QUOT == <<"&", "q", "u", "o", "t", ";">>
APOS == <<"&", "a", "p", "o", "s", ";">>

RECURSIVE ReplaceAll(_, _, _)
\* text.replace(/ch/g, by)
ReplaceAll(text, ch, by) ==
    IF text = <<>> THEN <<>>
    ELSE (IF Head(text) = ch THEN by ELSE <<Head(text)>>) \o ReplaceAll(Tail(text), ch, by)

\* the ampersand replaced last
escapeXMLAmpersandLast(text) ==
    ReplaceAll(ReplaceAll(ReplaceAll(ReplaceAll(ReplaceAll(text,
        "<", LT), ">", GT), QUOTE, QUOT), "'", APOS), "&", AMP)

escapeXML(text) ==
    ReplaceAll(ReplaceAll(ReplaceAll(ReplaceAll(ReplaceAll(text,
        "&", AMP), "<", LT), ">", GT), QUOTE, QUOT), "'", APOS)

\* a line of the blocked-tools section
NotAvailable(tool) ==
    "<tool name=\"" \o tool \o "\">NOT AVAILABLE in report mode</tool>"

\* the blocked-tools section of both report prompts
BlockedToolsSection ==
    << "<blocked-tools>", NotAvailable("add_comment"),
       NotAvailable("approve_pull_request"), NotAvailable("request_changes"),
       NotAvailable("update_pull_request"), "</blocked-tools>" >>

getMarkdownReportPrompt ==
    << "<yama-report-system>",
       "REPORT MODE - You will analyze all files and output a complete markdown report at the end" >>
    \o BlockedToolsSection \o << "<report-format>", "</report-format>", "</yama-report-system>" >>

getJSONReportPrompt ==
    << "<yama-report-system>",
       "REPORT MODE - You will analyze all files and output a complete JSON report at the end" >>
    \o BlockedToolsSection \o << "<report-format>", "</report-format>", "</yama-report-system>" >>

\* format: "" when the request leaves it out (the parameter's default is md)
getReportModeSystemPrompt(format) ==
    IF format = "json" THEN getJSONReportPrompt ELSE getMarkdownReportPrompt

\* the task of a normal-mode review, whatever the mode of the request
buildNormalTaskInstructions(dryRun, mode) ==
    << "Begin your autonomous code review now.",
       "1. Call ", "get_pull_request", "() to read PR details and existing comments",
       "2. Analyze files one by one using ", "get_pull_request_diff", "()",
       "3. Use ", "search_code", "() BEFORE commenting on unfamiliar code",
       "4. Post comments immediately with ", "add_comment", "() using line_number and line_type from diff",
       "5. Apply blocking criteria to make final decision",
       "6. Call ", "approve_pull_request", "() or ", "request_changes", "()",
       "7. Post summary comment with statistics",
       IF dryRun THEN "DRY RUN MODE: Simulate actions only, do not post real comments."
       ELSE "LIVE MODE: Post real comments and make real decisions." >>

buildTaskInstructions(dryRun, mode) ==
    IF mode
    THEN << "Begin your autonomous code review now.",
            "1. Call ", "get_pull_request", "() to read PR details",
            "2. Analyze files one by one using ", "get_pull_request_diff", "()",
            "3. Use ", "search_code", "() to understand context when needed",
            "4. Track all issues found during analysis",
            "5. After ALL files analyzed, output the complete report following the format in your system instructions",
            IF dryRun THEN "DRY RUN MODE: Simulate actions only, do not post real comments."
            ELSE "LIVE MODE: Analyze files and generate report." >>
    ELSE buildNormalTaskInstructions(dryRun, mode)

\* the configuration but for the workflow instructions: no focus area, no
\* blocking criterion, no exclusion
buildProjectConfigXML(workflowInstructions) ==
    << "<workflow-instructions>", NL >> \o escapeXML(workflowInstructions)
    \o << NL, "</workflow-instructions>", "<focus-areas>", "</focus-areas>",
          "<blocking-criteria>", "</blocking-criteria>", "<file-exclusions>",
          "</file-exclusions>", "<tool-preferences>", "</tool-preferences>",
          "<context-settings>", "</context-settings>" >>

\* the sentinel whatever the request names
PullRequestIdSentinel(req) == "find-by-branch"

\* ${request.pullRequestId || "find-by-branch"}
PullRequestIdText(req) ==
    IF req.pullRequestId # "" THEN req.pullRequestId ELSE "find-by-branch"

\* neither project standards nor a knowledge base configured; the request
\* names an empty workspace and repository
buildReviewInstructions(req, mode, format, dryRun, basePrompt, workflowInstructions) ==
    (IF mode THEN getReportModeSystemPrompt(format) ELSE basePrompt)
    \o << "<project-configuration>" >> \o buildProjectConfigXML(workflowInstructions)
    \o << "</project-configuration>", "<review-task>", "<workspace>", "</workspace>",
          "<repository>", "</repository>", "<pull_request_id>", PullRequestIdText(req),
          "</pull_request_id>", "<branch>" >>
    \o (IF req.branch = <<>> THEN << "N/A" >> ELSE escapeXML(req.branch))
    \o << "</branch>", "<mode>",
          IF dryRun THEN "dry-run" ELSE "live", "</mode>", "<instructions>" >>
    \o buildTaskInstructions(dryRun, mode)
    \o << "</instructions>", "</review-task>" >>

\* what langfuseManager.getReviewPrompt() may return, the base prompt of a
\* normal-mode review
BasePrompts ==
    { << "<yama-review-system>", "</yama-review-system>" >>,
      << "<yama-review-system>", "Post comments with ", "add_comment", "</yama-review-system>" >> }

WorkflowTexts == UNION {[1..n -> XMLChars] : n \in 0..MaxChars}

\* a session is created, the configuration loaded
InitPrompt ==
    /\ reportMode \in BOOLEAN
    /\ toolCalls = <<>>
    /\ responseText = <<>>
    /\ reviewResult = NoResult
    /\ enhancedDescription = NoText
    /\ pc = "running"
    /\ report = NoReport
    /\ backup = NoBackup
    /\ appendix = "none"
    /\ server = NoServer
    /\ request = NoRequest
    /\ prInfo = NoPRInfo
    /\ workflow \in WorkflowTexts
    /\ instruction = <<>>
    /\ initialized = TRUE
    /\ setup = [NoSetup EXCEPT !.attempts = 1, !.servers = {"bitbucket"}]
    /\ blockedTools = setupMCPServers({}, reportMode)
    /\ sessions = NoSessions
    /\ called = NoCall
    /\ runs = NoRuns
    /\ toolContext = NoContext
    /\ executed = <<>>

\* promptBuilder.buildReviewInstructions(request, config) in the try block of
\* startReview, before the generation call
BuildReviewInstructions ==
    /\ pc = "running" /\ instruction = <<>>
    /\ \E format \in ReportFormats, dryRun \in BOOLEAN, basePrompt \in BasePrompts :
          instruction' = buildReviewInstructions(request, reportMode, format, dryRun, basePrompt, workflow)
    /\ UNCHANGED sessionVars
    /\ UNCHANGED <<report, backup, appendix, server, request, prInfo, workflow>>
    /\ UNCHANGED engineVars
    /\ UNCHANGED trackerVars
    /\ UNCHANGED toolVars

NextPrompt ==
    \/ BuildReviewInstructions
    \/ Review({<<"Decision", ":", " ", "APPROVED">>})

SpecPrompt == InitPrompt /\ [][NextPrompt]_vars

\* the units of text from the one after the unit open to the one before the
\* next unit close
Between(text, open, close) ==
    LET i == CHOOSE k \in 1..Len(text) : text[k] = open
        j == CHOOSE k \in (i + 1)..Len(text) :
                 text[k] = close /\ \A m \in (i + 1)..(k - 1) : text[m] # close
    IN SubSeq(text, i + 1, j - 1)

UnitsOf(text) == {text[i] : i \in 1..Len(text)}

\* the escaped form of one character
Entity(ch) ==
    CASE ch = "&" -> AMP
      [] ch = "<" -> LT
      [] ch = ">" -> GT
      [] ch = QUOTE -> QUOT
      [] ch = "'" -> APOS
      [] OTHER -> <<ch>>

RECURSIVE EachOnce(_)
EachOnce(text) ==
    IF text = <<>> THEN <<>> ELSE Entity(Head(text)) \o EachOnce(Tail(text))

BeginsEntity(text, i) ==
    \E entity \in {AMP, LT, GT, QUOT, APOS} :
        /\ i + Len(entity) - 1 <= Len(text)
        /\ SubSeq(text, i, i + Len(entity) - 1) = entity

Composed == instruction # <<>>

\* C18: the escaped form of the configured workflow instructions holds none
\* of the characters < > " ', every & in it begins one of the five entities,
\* it is the input with each character escaped exactly once, and a composed
\* review instruction holds the workflow instructions in this form between
\* the workflow-instructions tags and none of the bare characters elsewhere.
C18_WorkflowInstructionsEscaped ==
    Composed =>
        LET out == escapeXML(workflow)
        IN /\ UnitsOf(out) \cap {"<", ">", QUOTE, "'"} = {}
           /\ \A i \in 1..Len(out) : out[i] = "&" => BeginsEntity(out, i)
           /\ out = EachOnce(workflow)
           /\ Between(instruction, "<workflow-instructions>", "</workflow-instructions>")
                  = <<NL>> \o out \o <<NL>>
           /\ UnitsOf(instruction) \cap {"<", ">", QUOTE, "'"} = {}
           /\ \A i \in 1..Len(instruction) :
                  instruction[i] = "&" => BeginsEntity(instruction, i)

\* an instruction composed from workflow instructions holding <, & and "
C18_Witness ==
    /\ Composed
    /\ workflow = <<"<", "&", QUOTE>>
    /\ Between(instruction, "<workflow-instructions>", "</workflow-instructions>")
           = <<NL>> \o LT \o AMP \o QUOT \o <<NL>>

PostingTools == {"add_comment", "approve_pull_request", "request_changes"}

TaskBlock == Between(instruction, "<instructions>", "</instructions>")

\* C19: a review instruction composed for a report mode request marks
\* add_comment, approve_pull_request and request_changes as NOT AVAILABLE
\* inside its blocked-tools section and names none of them in its task block,
\* whatever the report format; one composed for a normal request names
\* add_comment, approve_pull_request and request_changes in its task block.
C19_ReportModeWithholdsPostingTools ==
    Composed =>
        IF reportMode
        THEN /\ "<blocked-tools>" \in UnitsOf(instruction)
             /\ \A tool \in PostingTools :
                    NotAvailable(tool)
                        \in UnitsOf(Between(instruction, "<blocked-tools>", "</blocked-tools>"))
             /\ UnitsOf(TaskBlock) \cap PostingTools = {}
        ELSE PostingTools \subseteq UnitsOf(TaskBlock)

\* a report mode instruction, composed for the JSON format
C19_Witness ==
    /\ Composed /\ reportMode
    /\ "REPORT MODE - You will analyze all files and output a complete JSON report at the end"
           \in UnitsOf(instruction)
    /\ "get_pull_request_diff" \in UnitsOf(TaskBlock)

\* a normal mode instruction whose task block names the posting tools
C19_WitnessNormal ==
    /\ Composed /\ ~reportMode
    /\ "add_comment" \in UnitsOf(TaskBlock)

(***************************************************************************)
(* The orchestrator over several calls: initialize, startReview,            *)
(* startReviewAndEnhance and enhanceDescription, one call at a time.  The    *)
(* configuration loads and validates, the engine starts.                     *)
(***************************************************************************)

\* bitbucket.blockedTools of the configuration
ConfigBlocked == {{}, {"delete_branch"}}

\* initialize(configPath, {reportMode: mode}): returns at once when the
\* orchestrator is initialized, registers the tool servers otherwise
initialize(mode, configBlocked, env) ==
    IF initialized
    THEN UNCHANGED engineVars
    ELSE LET registered == setupMCPServersIn(env)
             raised == IF registered.raised # "" THEN registered.raised
                       ELSE IF ~env.valid THEN "ConfigurationError"
                       ELSE ""
         IN  /\ blockedTools' = IF registered.raised = ""
                                 THEN setupMCPServers(configBlocked, mode)
                                 ELSE blockedTools
             /\ setup' = [attempts |-> setup.attempts + 1, env |-> env,
                          servers |-> registered.servers, raised |-> raised,
                          warned |-> registered.warned]
             /\ initialized' = (raised = "")

\* the runs below are made where initialization succeeds
ensureInitialized(mode, configBlocked) ==
    IF ~initialized THEN initialize(mode, configBlocked, WorkingEnv) ELSE UNCHANGED engineVars

\* no call is in progress
Returned == {"idle", "completed", "failed"}

\* a call of initialize by the caller
Initialize ==
    /\ pc \in Returned
    /\ \E mode \in BOOLEAN, configBlocked \in ConfigBlocked : initialize(mode, configBlocked, WorkingEnv)
    /\ UNCHANGED sessionVars
    /\ UNCHANGED runVars
    /\ UNCHANGED trackerVars
    /\ UNCHANGED toolVars

\* startReview and startReviewAndEnhance up to createSession, alike in both:
\* ensureInitialized(request.reportMode), fetchPRInfo, the request completed
\* with the identifier found, a new session
StartReview ==
    /\ pc \in Returned
    /\ \E mode \in BOOLEAN, configBlocked \in ConfigBlocked, r \in {NoRequest, [NoRequest EXCEPT !.pullRequestId = "1"]} :
          LET info == fetchPRInfo(server, r)
          IN  /\ ensureInitialized(mode, configBlocked)
              /\ reportMode' = mode
              /\ prInfo' = info
              /\ executed' = Executions(server, r)
              /\ request' = IF info.found /\ r.pullRequestId = "" /\ ~Falsy(info.id)
                            THEN [r EXCEPT !.pullRequestId = info.id.v]
                            ELSE r
    /\ toolCalls' = <<>>
    /\ responseText' = <<>>
    /\ reviewResult' = NoResult
    /\ enhancedDescription' = NoText
    /\ report' = NoReport
    /\ backup' = NoBackup
    /\ appendix' = "none"
    /\ pc' = "running"
    /\ UNCHANGED <<server, workflow, instruction>>
    /\ UNCHANGED trackerVars

\* enhanceDescription(request) up to createSession: ensureInitialized(false)
\* whatever the request says
EnhanceDescriptionOnly ==
    /\ pc \in Returned
    /\ \E mode \in BOOLEAN, configBlocked \in ConfigBlocked :
          /\ ensureInitialized(FALSE, configBlocked)
          /\ reportMode' = mode
    /\ toolCalls' = <<>>
    /\ responseText' = <<>>
    /\ reviewResult' = NoResult
    /\ enhancedDescription' = NoText
    /\ pc' = "describing"
    /\ UNCHANGED runVars
    /\ UNCHANGED trackerVars
    /\ UNCHANGED toolVars

\* the generation call of enhanceDescription and its return, or the catch
\* block when the call raises
GenerateDescription ==
    /\ pc = "describing"
    /\ \E text \in EnhancementTexts, raises \in BOOLEAN :
          /\ responseText' = IF raises THEN responseText ELSE text
          /\ pc' = IF raises THEN "failed" ELSE "completed"
    /\ UNCHANGED <<reportMode, toolCalls, reviewResult, enhancedDescription>>
    /\ UNCHANGED runVars
    /\ UNCHANGED engineVars
    /\ UNCHANGED trackerVars
    /\ UNCHANGED toolVars

\* a new orchestrator
InitOrchestrator ==
    /\ reportMode = FALSE
    /\ toolCalls = <<>>
    /\ responseText = <<>>
    /\ reviewResult = NoResult
    /\ enhancedDescription = NoText
    /\ pc = "idle"
    /\ report = NoReport
    /\ backup = NoBackup
    /\ appendix = "none"
    /\ server = NoServer
    /\ request = NoRequest
    /\ prInfo = NoPRInfo
    /\ workflow = <<>>
    /\ instruction = <<>>
    /\ initialized = FALSE
    /\ setup = NoSetup
    /\ blockedTools = {}
    /\ sessions = NoSessions
    /\ called = NoCall
    /\ runs = NoRuns
    /\ toolContext = NoContext
    /\ executed = <<>>

NextOrchestrator ==
    \/ Initialize
    \/ StartReview
    \/ EnhanceDescriptionOnly
    \/ Review({<<"Decision", ":", " ", "APPROVED">>, <<>>})
    \/ GenerateAndWriteReport
    \/ CompleteReview
    \/ SaveOriginalDescriptionFallback
    \/ EnhanceDescription
    \/ SkipEnhancement
    \/ CompleteEnhance
    \/ GenerateDescription

SpecOrchestrator == InitOrchestrator /\ [][NextOrchestrator]_vars

\* a session is running and its generation call is made
GenerateInvoked == pc \in {"running", "describing"}

\* C20: whenever generate is invoked for a request with reportMode set, the
\* tool servers were registered with add_comment, approve_pull_request,
\* request_changes and update_pull_request blocked.
C20_ReportModeToolsWithheld ==
    (GenerateInvoked /\ reportMode) => getReportModeBlockedTools \subseteq blockedTools

\* the same of the generation call of a review alone: that of startReview
\* and startReviewAndEnhance
C20_ReviewToolsWithheld ==
    (pc = "running" /\ reportMode) => getReportModeBlockedTools \subseteq blockedTools

(***************************************************************************)
(* The session tracker (SessionManager), after its contract: createSession, *)
(* recordToolCall, completeSession and failSession on the records of        *)
(* several sessions.                                                        *)
(***************************************************************************)
MaxTrackerCalls == 4   \* calls of the tracker in one behaviour

Terminal(session) == session.status \in {"completed", "failed"}

\* a call that names a session which is not running is an error
Refused(ss, id) == ss[id].status # "running"

\* the identifier of the next session: the first one not in use, 0 if none
NextSessionId(ss) ==
    IF \E id \in SessionIds : ss[id].status = "none"
    THEN CHOOSE id \in SessionIds :
             ss[id].status = "none" /\ \A other \in 1..(id - 1) : ss[other].status # "none"
    ELSE 0

createSession(ss) ==
    [ss EXCEPT ![NextSessionId(ss)] = [NoSession EXCEPT !.status = "running"]]

recordToolCall(ss, id, name) ==
    IF Refused(ss, id) THEN ss
    ELSE [ss EXCEPT ![id].toolCalls = Append(@, name)]

\* a completion that does not look at the status
completeSessionOverwriting(ss, id, result, now) ==
    [ss EXCEPT ![id].status = "completed", ![id].result = result, ![id].endTime = now]

completeSession(ss, id, result, now) ==
    IF Refused(ss, id) THEN ss
    ELSE [ss EXCEPT ![id].status = "completed", ![id].result = result, ![id].endTime = now]

failSession(ss, id, error, now) ==
    IF Refused(ss, id) THEN ss
    ELSE [ss EXCEPT ![id].status = "failed", ![id].error = error, ![id].endTime = now]

\* the record of a call of the tracker
Call(op, id, signalled) ==
    [op |-> op, id |-> id, signalled |-> signalled, at |-> called.at + 1]

Results == {"APPROVED", "BLOCKED"}

Errors == {"engine error"}

CreateSession ==
    /\ called.at < MaxTrackerCalls
    /\ NextSessionId(sessions) # 0
    /\ sessions' = createSession(sessions)
    /\ called' = Call("createSession", NextSessionId(sessions), FALSE)
    /\ UNCHANGED <<sessionVars, runVars, engineVars, runs, toolContext>>
    /\ UNCHANGED toolVars

TrackToolCall ==
    /\ called.at < MaxTrackerCalls
    /\ \E id \in SessionIds :
          /\ Len(sessions[id].toolCalls) < MaxCalls
          /\ sessions' = recordToolCall(sessions, id, "get_pull_request")
          /\ called' = Call("recordToolCall", id, Refused(sessions, id))
    /\ UNCHANGED <<sessionVars, runVars, engineVars, runs, toolContext>>
    /\ UNCHANGED toolVars

CompleteSession ==
    /\ called.at < MaxTrackerCalls
    /\ \E id \in SessionIds, result \in Results :
          /\ sessions' = completeSession(sessions, id, result, called.at + 1)
          /\ called' = Call("completeSession", id, Refused(sessions, id))
    /\ UNCHANGED <<sessionVars, runVars, engineVars, runs, toolContext>>
    /\ UNCHANGED toolVars

FailSession ==
    /\ called.at < MaxTrackerCalls
    /\ \E id \in SessionIds, error \in Errors :
          /\ sessions' = failSession(sessions, id, error, called.at + 1)
          /\ called' = Call("failSession", id, Refused(sessions, id))
    /\ UNCHANGED <<sessionVars, runVars, engineVars, runs, toolContext>>
    /\ UNCHANGED toolVars

NextTracker ==
    \/ CreateSession
    \/ TrackToolCall
    \/ CompleteSession
    \/ FailSession

SpecTracker == Init /\ [][NextTracker]_vars

\* C21: a session that is completed or failed stays as it is, status, result,
\* error, end time and tool calls, and a completeSession, failSession or
\* recordToolCall that names it signals an error.
C21_TerminalSessionsImmutable ==
    [][\A id \in SessionIds :
          Terminal(sessions[id]) =>
              /\ sessions'[id] = sessions[id]
              /\ (called'.at # called.at /\ called'.id = id
                      /\ called'.op \in {"completeSession", "failSession", "recordToolCall"})
                    => called'.signalled]_vars

\* a second completion of a completed session was refused and the first
\* result is still there
C21_Witness ==
    \E id \in SessionIds :
        /\ sessions[id].status = "completed"
        /\ sessions[id].result = "APPROVED"
        /\ sessions[id].endTime < called.at
        /\ called.op = "completeSession" /\ called.id = id /\ called.signalled

(***************************************************************************)
(* The entry points of the orchestrator as runs that may be in flight       *)
(* together: a run gives way where it awaits the instructions or a          *)
(* generation call, and its steps in between are one step (the report       *)
(* write, which touches nothing the runs share, is taken with the step      *)
(* before it).  A run keeps the events of its session in order.             *)
(***************************************************************************)
RunIds == SessionIds

EntryPoints == {"startReview", "startReviewAndEnhance", "enhanceDescription", "streamReview"}

\* the requests and configurations of a run; the flags an entry point does
\* not read are left false (enabled is not read when reviewOnly is set)
Flags(op) ==
    IF op = "startReviewAndEnhance"
    THEN {[reportMode |-> m, reviewOnly |-> o, enabled |-> e] :
              m \in BOOLEAN, o \in BOOLEAN, e \in BOOLEAN}
         \ [reportMode : BOOLEAN, reviewOnly : {TRUE}, enabled : {FALSE}]
    ELSE IF op = "startReview"
    THEN {[reportMode |-> m, reviewOnly |-> FALSE, enabled |-> FALSE] : m \in BOOLEAN}
    ELSE {[reportMode |-> FALSE, reviewOnly |-> FALSE, enabled |-> FALSE]}

createToolContext(sessionId, req) ==
    [sessionId |-> sessionId, pullRequestId |-> req.pullRequestId, branch |-> req.branch,
     dryRun |-> FALSE]

\* an event of a session
Event(run, what) == [sessionId |-> run.sessionId, what |-> what]

\* context.operation of the first generation call of an entry point
FirstOperation(op) ==
    IF op = "enhanceDescription" THEN "description-enhancement"
    ELSE IF op = "streamReview" THEN "stream" ELSE "code-review"

\* phase 2 runs whatever the request and the configuration say
EnhancementAlways(run) == TRUE

\* startReviewAndEnhance: phase 2 runs unless the request is reviewOnly or the
\* enhancement is disabled in the configuration
EnhancementWanted(run) == ~run.reviewOnly /\ run.enabled

\* the entry point up to its first await: createSession, then the
\* instructions are awaited
Begin ==
    /\ \E r \in RunIds, op \in EntryPoints :
          /\ runs[r].pc = "none" /\ \A other \in 1..(r - 1) : runs[other].pc # "none"
          /\ NextSessionId(sessions) # 0
          /\ \E flags \in Flags(op) :
                runs' = [runs EXCEPT ![r] =
                    [NoRun EXCEPT !.op = op, !.pc = "composing",
                                  !.sessionId = NextSessionId(sessions),
                                  !.request = [NoRequest EXCEPT !.pullRequestId = "1"],
                                  !.reportMode = flags.reportMode,
                                  !.reviewOnly = flags.reviewOnly,
                                  !.enabled = flags.enabled,
                                  !.events = << [sessionId |-> NextSessionId(sessions),
                                                 what |-> "createSession"] >>]]
    /\ sessions' = createSession(sessions)
    /\ called' = Call("createSession", NextSessionId(sessions), FALSE)
    /\ UNCHANGED <<sessionVars, runVars, engineVars, toolContext>>
    /\ UNCHANGED toolVars

\* the instructions are there: createToolContext, setToolContext and the
\* generation call, which is awaited
IssueGenerate ==
    /\ \E r \in RunIds :
          /\ runs[r].pc = "composing"
          /\ toolContext' = createToolContext(runs[r].sessionId, runs[r].request)
          /\ runs' = [runs EXCEPT ![r].pc = "generating",
                                  ![r].events = Append(@, Event(runs[r], FirstOperation(runs[r].op)))]
    /\ UNCHANGED <<sessionVars, runVars, engineVars, sessions, called>>
    /\ UNCHANGED toolVars

\* the run of r after a failure: the catch block fails the session and
\* raises again
Raised(r, ss, events) ==
    /\ sessions' = failSession(ss, runs[r].sessionId, "engine error", called.at + 1)
    /\ called' = Call("failSession", runs[r].sessionId, Refused(ss, runs[r].sessionId))
    /\ runs' = [runs EXCEPT ![r].pc = "raised", ![r].events = events]

\* the run of r at the end of startReview and startReviewAndEnhance:
\* completeSession and the return
Completed(r, events, enhanced) ==
    /\ sessions' = completeSession(sessions, runs[r].sessionId, "APPROVED", called.at + 1)
    /\ called' = Call("completeSession", runs[r].sessionId, Refused(sessions, runs[r].sessionId))
    /\ runs' = [runs EXCEPT ![r].pc = "returned", ![r].events = events,
                            ![r].descriptionEnhanced = enhanced]

\* the first generation call is over: it raised, or it returned and the
\* entry point goes on to its return or to its next await
GenerateReturns ==
    /\ \E r \in RunIds, raises \in BOOLEAN, written \in BOOLEAN :
          LET run == runs[r]
              returned == Append(run.events, Event(run, "returned"))
              parsed == Append(returned, Event(run, "parseReviewResult"))
              reported == IF run.reportMode
                          THEN Append(parsed, Event(run, "writeReport")) ELSE parsed
          IN  /\ run.pc = "generating"
              /\ IF raises THEN Raised(r, sessions, run.events)
                 ELSE IF run.op \in {"enhanceDescription", "streamReview"}
                 THEN /\ runs' = [runs EXCEPT ![r].pc = "returned", ![r].events = returned]
                      /\ UNCHANGED <<sessions, called>>
                 ELSE IF run.reportMode /\ ~written THEN Raised(r, sessions, parsed)
                 ELSE IF run.op = "startReview" THEN Completed(r, reported, "unset")
                 ELSE IF EnhancementWanted(run)
                 THEN /\ runs' = [runs EXCEPT ![r].pc = "enhancing", ![r].events = reported]
                      /\ UNCHANGED <<sessions, called>>
                 ELSE Completed(r, reported, FALSE)
    /\ UNCHANGED <<sessionVars, runVars, engineVars, toolContext>>
    /\ UNCHANGED toolVars

\* phase 2 of startReviewAndEnhance: the backup and the instructions were
\* awaited, the enhancement generation call is issued and awaited
IssueEnhancement ==
    /\ \E r \in RunIds :
          /\ runs[r].pc = "enhancing"
          /\ runs' = [runs EXCEPT ![r].pc = "generating again",
                                  ![r].events = Append(@, Event(runs[r], "description-enhancement"))]
    /\ UNCHANGED <<sessionVars, runVars, engineVars, sessions, called, toolContext>>
    /\ UNCHANGED toolVars

\* the enhancement call is over
EnhancementReturns ==
    /\ \E r \in RunIds, raises \in BOOLEAN :
          /\ runs[r].pc = "generating again"
          /\ IF raises THEN Raised(r, sessions, runs[r].events)
             ELSE Completed(r, Append(runs[r].events, Event(runs[r], "enhanced")), TRUE)
    /\ UNCHANGED <<sessionVars, runVars, engineVars, toolContext>>
    /\ UNCHANGED toolVars

NextSessions ==
    \/ Begin
    \/ IssueGenerate
    \/ GenerateReturns
    \/ IssueEnhancement
    \/ EnhancementReturns

\* an initialized orchestrator, no call made yet
InitSessions == Init /\ ~reportMode /\ pc = "running"

SpecSessions == InitSessions /\ [][NextSessions]_vars

\* a generation call of the run is in progress
Generating(run) == run.pc \in {"generating", "generating again"}

\* C22: while a generation call of a session is in progress, the tool context
\* set in the engine is the one created for that session.
C22_ToolContextIsTheSessionsOwn ==
    \A r \in RunIds :
        Generating(runs[r]) => toolContext = createToolContext(runs[r].sessionId, runs[r].request)

\* C23: when an entry point has returned its session is completed, when it
\* has raised its session is failed with the error attached; no session of a
\* finished entry point is running.
C23_SessionsFinalized ==
    \A r \in RunIds :
        /\ runs[r].pc = "returned" => sessions[runs[r].sessionId].status = "completed"
        /\ runs[r].pc = "raised" =>
               /\ sessions[runs[r].sessionId].status = "failed"
               /\ sessions[runs[r].sessionId].error # ""

\* the places of an event in the events of a run
Places(run, what) == {i \in 1..Len(run.events) : run.events[i].what = what}

\* C28: a run of startReviewAndEnhance creates one session; its enhancement
\* call comes after the review call has returned, been interpreted and, in
\* report mode, its report written, and carries the session identifier of the
\* review call; there is none when the request is reviewOnly or the
\* enhancement is disabled; descriptionEnhanced of the result is true exactly
\* when the enhancement call was issued and returned.
C28_OneSessionTwoPhases ==
    /\ Cardinality({id \in SessionIds : sessions[id].status # "none"})
           = Cardinality({r \in RunIds : runs[r].pc # "none"})
    /\ \A r \in RunIds :
          LET run == runs[r]
          IN  run.op = "startReviewAndEnhance" =>
                /\ Cardinality(Places(run, "createSession")) = 1
                /\ \A i \in Places(run, "description-enhancement") :
                      /\ \E j \in Places(run, "code-review") :
                            j < i /\ run.events[j].sessionId = run.events[i].sessionId
                      /\ \E j \in Places(run, "returned") : j < i
                      /\ \E j \in Places(run, "parseReviewResult") : j < i
                      /\ run.reportMode => \E j \in Places(run, "writeReport") : j < i
                /\ (run.reviewOnly \/ ~run.enabled) => Places(run, "description-enhancement") = {}
                /\ run.pc = "returned" =>
                      ((run.descriptionEnhanced = TRUE)
                          <=> (Places(run, "description-enhancement") # {}
                                 /\ Places(run, "enhanced") # {}))

\* a report mode run of startReviewAndEnhance has returned with the
\* description enhanced, while another run was in flight
C28_Witness ==
    \E r \in RunIds :
        /\ runs[r].op = "startReviewAndEnhance" /\ runs[r].reportMode
        /\ runs[r].pc = "returned" /\ runs[r].descriptionEnhanced = TRUE
        /\ Len(runs[r].events) = 7
        /\ \E other \in RunIds : Generating(runs[other])

\* C24: when the enhancement generation call of a normal mode run is issued,
\* the backup file with the description has been written.
C24_BackupBeforeEnhancement ==
    [][(~reportMode /\ pc = "backedup" /\ pc' \in {"enhanced", "failed"})
          => backup.file # ""]_vars

(***************************************************************************)
(* Initialization where the credentials may be missing and the             *)
(* registration of a tool server may fail.                                 *)
(***************************************************************************)
MaxAttempts == 3

\* a call of initialize by the caller, in whatever environment
InitializeIn ==
    /\ setup.attempts < MaxAttempts
    /\ \E mode \in BOOLEAN, configBlocked \in ConfigBlocked, env \in Env :
          initialize(mode, configBlocked, env)
    /\ UNCHANGED sessionVars
    /\ UNCHANGED runVars
    /\ UNCHANGED trackerVars
    /\ UNCHANGED toolVars

NextSetup == InitializeIn

SpecSetup == InitOrchestrator /\ [][NextSetup]_vars

BitbucketFails(env) == ~env.bitbucketCredentials \/ ~env.bitbucketRegisters

JiraFails(env) == env.jiraEnabled /\ (~env.jiraCredentials \/ ~env.jiraRegisters)

\* C25: an initialization that finds the Bitbucket credentials missing or the
\* Bitbucket registration failing raises MCPServerError and leaves the
\* orchestrator uninitialized; one that finds Bitbucket working and the Jira
\* credentials missing or the Jira registration failing logs a warning, raises
\* nothing from the setup of the servers and, the configuration being valid,
\* leaves the orchestrator initialized.
C25_FatalAndOptionalSetupFailures ==
    setup.attempts > 0 =>
        /\ BitbucketFails(setup.env) =>
              setup.raised = "MCPServerError" /\ ~initialized
        /\ (~BitbucketFails(setup.env) /\ JiraFails(setup.env)) =>
              /\ setup.warned
              /\ setup.raised # "MCPServerError"
              /\ setup.env.valid => (setup.raised = "" /\ initialized)

\* initialized with Jira enabled and failing, after an attempt that failed
C25_Witness ==
    /\ setup.attempts > 1
    /\ JiraFails(setup.env)
    /\ initialized
    /\ setup.servers = {"bitbucket"}

\* an attempt that found the Bitbucket credentials missing
C25_WitnessFatal ==
    /\ setup.attempts > 0
    /\ ~setup.env.bitbucketCredentials
    /\ ~initialized

(***************************************************************************)
(* The branch search against an upstream that lists its open PRs by        *)
(* offset: asked for (limit 50, start s) it answers with the PRs from      *)
(* offset s on, as many as it serves in one page, and says whether the     *)
(* listing ends there.                                                     *)
(***************************************************************************)
\* a PR of the branch asked for, and one of another branch
OfFeatureX == Obj(("id" :> Num("1")) @@ ("source_branch" :> Str(FeatureX)))

OfMain == Obj(("id" :> Num("2")) @@ ("source_branch" :> Str(<<"main">>)))

Filler(n) == [i \in 1..n |-> OfMain]

Least(a, b) == IF a < b THEN a ELSE b

\* the answer to (limit PageSize, start): at most cap PRs from offset start
ServedPage(listing, cap, start) ==
    LET n == Least(Least(cap, PageSize), IF start < Len(listing) THEN Len(listing) - start ELSE 0)
    IN  Obj(("values" :> Arr(SubSeq(listing, start + 1, start + n)))
            @@ ("isLastPage" :> Bool(start + n >= Len(listing))))

\* the answers at the offsets the search asks: 0, PageSize, ...
PagesServed(listing, cap) ==
    [i \in 1..((Len(listing) \div PageSize) + 1) |-> ServedPage(listing, cap, (i - 1) * PageSize)]

\* listings that end before, at and behind the end of the first page
UpstreamListings ==
    {Filler(f) \o prs :
        f \in {0, PageSize - 1, PageSize},
        prs \in UNION {[1..n -> {OfFeatureX, OfMain}] : n \in 0..MaxListed}}

\* an upstream that serves one PR a page, and one that serves the limit
Caps == {1, PageSize}

Upstreams ==
    {[pr |-> Null, pages |-> PagesServed(listing, cap), enveloped |-> e,
      listing |-> listing, cap |-> cap] :
        listing \in UpstreamListings, cap \in Caps, e \in BOOLEAN}

InitListing ==
    /\ reportMode \in BOOLEAN
    /\ toolCalls = <<>>
    /\ responseText = <<>>
    /\ reviewResult = NoResult
    /\ enhancedDescription = NoText
    /\ pc = "idle"
    /\ report = NoReport
    /\ backup = NoBackup
    /\ appendix = "none"
    /\ server \in Upstreams
    /\ request = NoRequest
    /\ prInfo = NoPRInfo
    /\ workflow = <<>>
    /\ instruction = <<>>
    /\ initialized = TRUE
    /\ setup = [NoSetup EXCEPT !.attempts = 1, !.servers = {"bitbucket"}]
    /\ blockedTools = setupMCPServers({}, reportMode)
    /\ sessions = NoSessions
    /\ called = NoCall
    /\ runs = NoRuns
    /\ toolContext = NoContext
    /\ executed = <<>>

NextListing == FetchPRInfo

SpecListing == InitListing /\ [][NextListing]_vars

IsTrue(x) == x.k = "boolean" /\ x.v = "true"

\* the page the upstream answered the i-th request of the search with
Received(i) == unwrapMCPResponse(ListPullRequests(server, executed[i].start))

\* C26: a search by branch that ends without a PR found has compared every
\* open PR the upstream lists: none of them is of the branch asked for.
C26_NotFoundOnlyAfterEveryPR ==
    (ByBranch /\ ~prInfo.found)
    => \A n \in 1..Len(server.listing) : ~MatchesBranch(server.listing[n], request.branch)

\* C30: the search asks for no page behind one that reports isLastPage true.
C30_NoPageBehindTheLast ==
    ByBranch => \A i \in 1..(Len(executed) - 1) : ~IsTrue(Get(Received(i), "isLastPage"))

\* C30, as the code has it: the search ends after at most one request for
\* each PageSize PRs of the listing, begun or full, and one more, and it asks for a page
\* behind one that reports isLastPage true only if that one held PageSize PRs.
C30_SearchTerminates ==
    ByBranch =>
        /\ Len(executed) <= ((Len(server.listing) + PageSize - 1) \div PageSize) + 1
        /\ \A i \in 1..(Len(executed) - 1) :
              IsTrue(Get(Received(i), "isLastPage"))
              => Len(Get(Received(i), "values").v) = PageSize

\* a search that went behind a full first page and ended without a match at
\* a second page that held a PR and reported isLastPage true
C30_Witness ==
    /\ ByBranch
    /\ ~prInfo.found
    /\ Len(executed) = 2
    /\ Len(Get(Received(1), "values").v) = PageSize
    /\ Len(Get(Received(2), "values").v) > 0
    /\ IsTrue(Get(Received(2), "isLastPage"))

\* C29: in normal mode, with both an approve_pull_request and a
\* request_changes call recorded, the decision is APPROVED in whichever order
\* the two were recorded.
C29_ApprovalOutlivesRequestChanges ==
    (Parsed /\ ~reportMode /\ Recorded("approve_pull_request") /\ Recorded("request_changes"))
    => reviewResult.decision = "APPROVED"

\* the approval was recorded first, request_changes after it
C29_Witness ==
    /\ Parsed /\ ~reportMode
    /\ toolCalls = <<"approve_pull_request", "request_changes">>
    /\ reviewResult.decision = "APPROVED"

\* request_changes was recorded first, the approval after it
C29_WitnessApprovedLast ==
    /\ Parsed /\ ~reportMode
    /\ toolCalls = <<"request_changes", "approve_pull_request">>
    /\ reviewResult.decision = "APPROVED"

(***************************************************************************)
(* startReview from the resolution of the PR to the ReviewResult: the      *)
(* resolver, createSession, the instructions composed, the response        *)
(* interpreted.                                                            *)
(***************************************************************************)
\* sessionManager.createSession(request) of startReview: the session keeps
\* the request as the resolver left it
CreateReviewSession ==
    /\ pc = "running"
    /\ sessions = NoSessions
    /\ sessions' = createSession(sessions)
    /\ called' = Call("createSession", NextSessionId(sessions), FALSE)
    /\ runs' = [runs EXCEPT ![1] =
                   [NoRun EXCEPT !.op = "startReview", !.pc = "composing",
                                 !.sessionId = NextSessionId(sessions),
                                 !.request = request,
                                 !.reportMode = reportMode,
                                 !.events = << [sessionId |-> NextSessionId(sessions),
                                                what |-> "createSession"] >>]]
    /\ UNCHANGED <<sessionVars, runVars, engineVars, toolContext>>
    /\ UNCHANGED toolVars

\* the instructions are composed in the try block, behind createSession
ComposeInstructions ==
    /\ sessions # NoSessions
    /\ BuildReviewInstructions

\* the generation call is made with the instructions composed
GenerateReview ==
    /\ instruction # <<>>
    /\ Review({<<"Decision", ":", " ", "APPROVED">>})

NextStartReview ==
    \/ FetchPRInfo
    \/ CreateReviewSession
    \/ ComposeInstructions
    \/ GenerateReview

SpecStartReview == InitResolve /\ [][NextStartReview]_vars

\* prId: session.request.pullRequestId || 0
prId(req) == IF req.pullRequestId # "" THEN req.pullRequestId ELSE "0"

\* the identifier the composed task block carries
TaskPullRequestId == Between(instruction, "<pull_request_id>", "</pull_request_id>")

\* the resolver ran while nothing else had: no session, no instructions
ResolverRunsFirst ==
    [][executed' # executed
          => pc = "idle" /\ sessions = NoSessions /\ instruction = <<>>]_vars

\* once it has run it does not run again
ResolverRunsOnce == [][pc # "idle" => executed' = executed]_vars

SingleLookup ==
    (Resolved /\ request.branch = <<>> /\ request.pullRequestId # "")
    => executed = <<Execution("get_pull_request", 0)>>

C27_WitnessLookup ==
    /\ Resolved /\ request.branch = <<>> /\ request.pullRequestId # ""
    /\ prInfo.found
    /\ executed = <<Execution("get_pull_request", 0)>>
    /\ Parsed

=============================================================================
